---- MODULE Spec2Model ----
(***************************************************************************)
(* A model of alectryon's cache layer (alectryon/json.py) and of the CLI   *)
(* step that drives it (alectryon/cli.py).                                 *)
(*                                                                         *)
(* Python values are modelled as tagged records of one uniform shape       *)
(*   [k : kind, n : number, s : string, c : children]                      *)
(* so that any two values can be compared.  Kinds: "int" (n is the value), *)
(* "str" (s is the text, n the identity of the string object), "none",     *)
(* "list", "tuple", "dict" (c is the sequence of its "pair" items, in      *)
(* insertion order; a pair holds its key in s and its value in c[1]),      *)
(* "ent" (an annotated entity: s is the class name, c the field values in  *)
(* declared order, n the identity of the object, 0 when untracked) and     *)
(* "err" (an exception raised instead of a value; s names it).             *)
(***************************************************************************)
EXTENDS Integers, Sequences, FiniteSets, TLC

VARIABLES
    \* --- serializer runs ---
    sv,        \* the value handed to a serializer
    ser,       \* which serializer ran: "none", "plain", "dedup", "full"
    wire,      \* <<>> or <<w>>: the wire tree encode returned
    dec,       \* <<>> or <<v>>: what decode returned for wire
    copy,      \* the copy flag decode was called with
    \* --- cache sessions ---
    disk,      \* compression -> <<>> (no file) or <<js>> (the file's JSON)
    cs,        \* the FileCacheSet of the current session
    last,      \* the last operation: its arguments, result and effects
    \* --- a run of the command line ---
    args,      \* the parsed arguments, as post_process_arguments leaves them
    run,       \* where process_pipelines is, and the step calls made so far
    cachedir,  \* the cache directory: document path -> the files of its cache
    \* --- processes running at the same time ---
    procs      \* process -> the FileCacheSet it holds and where it is in it

vars == <<sv, ser, wire, dec, copy, disk, cs, last, args, run, cachedir, procs>>
\* The variables of the runs of the program.
cliVars == <<args, run, cachedir, procs>>
serVars == <<sv, ser, wire, dec, copy>>
cacheVars == <<disk, cs, last>>

-----------------------------------------------------------------------------
(* Python values *)

PyInt(i) == [k |-> "int", n |-> i, s |-> "", c |-> <<>>]
PyStr(x, id) == [k |-> "str", n |-> id, s |-> x, c |-> <<>>]
None == [k |-> "none", n |-> 0, s |-> "", c |-> <<>>]
List(xs) == [k |-> "list", n |-> 0, s |-> "", c |-> xs]
Tuple(xs) == [k |-> "tuple", n |-> 0, s |-> "", c |-> xs]
Pair(key, v) == [k |-> "pair", n |-> 0, s |-> key, c |-> <<v>>]
Dict(ps) == [k |-> "dict", n |-> 0, s |-> "", c |-> ps]
Ent(cls, fs, id) == [k |-> "ent", n |-> id, s |-> cls, c |-> fs]
Err(name) == [k |-> "err", n |-> 0, s |-> name, c |-> <<>>]

IsErr(v) == v.k = "err"
IsPrim(v) == v.k \in {"int", "str", "none"}

\* The first error among the values of a sequence (an exception raised while
\* a comprehension runs ends the comprehension).
HasErr(xs) == \E i \in 1..Len(xs) : IsErr(xs[i])
FirstErr(xs) == xs[CHOOSE i \in 1..Len(xs) : IsErr(xs[i]) /\ \A j \in 1..(i-1) : ~IsErr(xs[j])]

Keys(d) == {d.c[i].s : i \in 1..Len(d.c)}
HasKey(d, key) == key \in Keys(d)
Lookup(d, key) == d.c[CHOOSE i \in 1..Len(d.c) : d.c[i].s = key].c[1]
Without(d, key) == SelectSeq(d.c, LAMBDA p : p.s # key)

\* Code-point order of the strings used as mapping keys.
KeyOrder == <<"&", "*", "_", "_type", "args", "body", "contents", "j", "k", "names", "type">>
KeyRank(key) == CHOOSE i \in 1..Len(KeyOrder) : KeyOrder[i] = key

\* sorted(obj.items()) of a mapping with unique keys.
RECURSIVE Sorted(_)
Sorted(ps) ==
    IF ps = <<>> THEN <<>>
    ELSE LET m == CHOOSE i \in 1..Len(ps) :
                      \A j \in 1..Len(ps) : KeyRank(ps[i].s) <= KeyRank(ps[j].s)
         IN <<ps[m]>> \o Sorted([i \in 1..(Len(ps)-1) |-> IF i < m THEN ps[i] ELSE ps[i+1]])

\* Structural equality: object identities are ignored and mappings are
\* compared as mappings (insertion order is ignored).
RECURSIVE Canon(_)
Canon(v) ==
    IF v.k = "dict" THEN Dict(Sorted([i \in 1..Len(v.c) |-> Pair(v.c[i].s, Canon(v.c[i].c[1]))]))
    ELSE [k |-> v.k, n |-> IF v.k = "int" THEN v.n ELSE 0, s |-> v.s,
          c |-> [i \in 1..Len(v.c) |-> Canon(v.c[i])]]
StructEq(a, b) == Canon(a) = Canon(b)

\* The wire trees: primitives, lists and mappings only.
RECURSIVE IsWire(_)
IsWire(v) ==
    \/ IsPrim(v)
    \/ v.k = "list" /\ \A i \in 1..Len(v.c) : IsWire(v.c[i])
    \/ v.k = "dict" /\ \A i \in 1..Len(v.c) : IsWire(v.c[i].c[1])

-----------------------------------------------------------------------------
(* The annotated entities *)

\* core is imported by json.py; of the eight classes of TYPE_OF_ALIASES the
\* model keeps three, with the fields core declares for them.
FIELDS == [Text |-> <<"contents">>,
           Message |-> <<"contents">>,
           Hypothesis |-> <<"names", "body", "type">>]
Classes == DOMAIN FIELDS

TYPE_OF_ALIASES == [text |-> "Text", message |-> "Message", hypothesis |-> "Hypothesis"]
ALIASES_OF_TYPE == [Text |-> "text", Message |-> "message", Hypothesis |-> "hypothesis"]

-----------------------------------------------------------------------------
(* PlainSerializer *)

PopTypeKept(d) == d.c

\* obj.pop("_type", None): the mapping without its "_type" item.
PopType(d) == Without(d, "_type")

RECURSIVE PlainEncode(_)
PlainEncodeUnchecked(obj) ==
    IF obj.k = "list" THEN
        LET xs == [i \in 1..Len(obj.c) |-> PlainEncode(obj.c[i])]
        IN IF HasErr(xs) THEN FirstErr(xs) ELSE List(xs)
    ELSE IF obj.k = "dict" THEN
        LET xs == [i \in 1..Len(obj.c) |-> PlainEncode(obj.c[i].c[1])]
        IN IF HasErr(xs) THEN FirstErr(xs)
           ELSE Dict([i \in 1..Len(obj.c) |-> Pair(obj.c[i].s, xs[i])])
    ELSE IF obj.k = "ent" /\ obj.s \in DOMAIN ALIASES_OF_TYPE THEN
        LET xs == [i \in 1..Len(obj.c) |-> PlainEncode(obj.c[i])]
        IN IF HasErr(xs) THEN FirstErr(xs)
           ELSE Dict(<<Pair("_type", PyStr(ALIASES_OF_TYPE[obj.s], 0))>>
                     \o [i \in 1..Len(obj.c) |-> Pair(FIELDS[obj.s][i], xs[i])])
    ELSE IF IsPrim(obj) THEN obj
    ELSE Err("AssertionError")

PlainEncode(obj) ==
    IF obj.k = "list" THEN
        LET xs == [i \in 1..Len(obj.c) |-> PlainEncode(obj.c[i])]
        IN IF HasErr(xs) THEN FirstErr(xs) ELSE List(xs)
    ELSE IF obj.k = "dict" THEN
        IF HasKey(obj, "_type") THEN Err("AssertionError")
        ELSE LET xs == [i \in 1..Len(obj.c) |-> PlainEncode(obj.c[i].c[1])]
             IN IF HasErr(xs) THEN FirstErr(xs)
                ELSE Dict([i \in 1..Len(obj.c) |-> Pair(obj.c[i].s, xs[i])])
    ELSE IF obj.k = "ent" /\ obj.s \in DOMAIN ALIASES_OF_TYPE THEN
        LET xs == [i \in 1..Len(obj.c) |-> PlainEncode(obj.c[i])]
        IN IF HasErr(xs) THEN FirstErr(xs)
           ELSE Dict(<<Pair("_type", PyStr(ALIASES_OF_TYPE[obj.s], 0))>>
                     \o [i \in 1..Len(obj.c) |-> Pair(FIELDS[obj.s][i], xs[i])])
    ELSE IF IsPrim(obj) THEN obj
    ELSE Err("AssertionError")

\* TYPE_OF_ALIASES[type_name](**obj): the fields are bound by name.
Construct(alias, ps, id) ==
    IF alias.k # "str" \/ alias.s \notin DOMAIN TYPE_OF_ALIASES THEN Err("KeyError")
    ELSE LET cls == TYPE_OF_ALIASES[alias.s]
             fs == FIELDS[cls]
         IN IF {ps[i].s : i \in 1..Len(ps)} # {fs[i] : i \in 1..Len(fs)}
            THEN Err("TypeError")
            ELSE Ent(cls, [i \in 1..Len(fs) |-> Lookup(Dict(ps), fs[i])], id)

Truthy(v) ==
    \/ v.k = "int" /\ v.n # 0
    \/ v.k = "str" /\ v.s # ""
    \/ v.k \in {"list", "tuple", "dict"} /\ v.c # <<>>
    \/ v.k = "ent"

RECURSIVE PlainDecode(_)
PlainDecode(js) ==
    IF js.k = "list" THEN
        LET xs == [i \in 1..Len(js.c) |-> PlainDecode(js.c[i])]
        IN IF HasErr(xs) THEN FirstErr(xs) ELSE List(xs)
    ELSE IF js.k = "dict" THEN
        LET xs == [i \in 1..Len(js.c) |-> PlainDecode(js.c[i].c[1])]
            obj == Dict([i \in 1..Len(js.c) |-> Pair(js.c[i].s, xs[i])])
        IN IF HasErr(xs) THEN FirstErr(xs)
           ELSE IF HasKey(obj, "_type") /\ Truthy(Lookup(obj, "_type"))
                THEN Construct(Lookup(obj, "_type"), PopType(obj), 0)
                ELSE Dict(PopType(obj))
    ELSE js

-----------------------------------------------------------------------------
(* pickle.dumps as a deduplication key *)

\* A pickle writes every string object once and a memo reference for each
\* later occurrence of the same object, so the key depends on which strings
\* of obj are one object.  Integers and None are never memoized.  The values
\* of the model are trees: their containers and entities are distinct
\* objects, and the only objects met twice in one dumps call are strings.
MemoRef(i) == [k |-> "memo", n |-> i, s |-> "", c |-> <<>>]
MemoIndex(memo, o) == CHOOSE i \in 1..Len(memo) : memo[i] = o

RECURSIVE Pickle(_, _)
RECURSIVE PickleSeq(_, _, _)
Pickle(v, memo) ==
    IF v.k = "str" THEN
        IF \E i \in 1..Len(memo) : memo[i] = <<v.s, v.n>>
        THEN [v |-> MemoRef(MemoIndex(memo, <<v.s, v.n>>)), m |-> memo]
        ELSE [v |-> PyStr(v.s, 0), m |-> Append(memo, <<v.s, v.n>>)]
    ELSE LET r == PickleSeq(v.c, memo, <<>>)
         IN [v |-> [k |-> v.k, n |-> IF v.k = "int" THEN v.n ELSE 0, s |-> v.s, c |-> r.v],
             m |-> r.m]
PickleSeq(xs, memo, acc) ==
    IF xs = <<>> THEN [v |-> acc, m |-> memo]
    ELSE LET r == Pickle(Head(xs), memo)
         IN PickleSeq(Tail(xs), r.m, Append(acc, r.v))

PickleDumps(obj) == Pickle(obj, <<>>).v

\* obj_table of the encoders: a dict from key to index.
TblHas(tbl, key) == \E i \in 1..Len(tbl) : tbl[i].key = key
TblGet(tbl, key) == tbl[CHOOSE i \in 1..Len(tbl) : tbl[i].key = key].ref
TblPutLenAfter(tbl, key) == Append(tbl, [key |-> key, ref |-> Len(tbl) + 1])

\* obj_table[key] = len(obj_table)
TblPut(tbl, key) ==
    IF TblHas(tbl, key)
    THEN [i \in 1..Len(tbl) |-> IF tbl[i].key = key THEN [key |-> key, ref |-> Len(tbl)] ELSE tbl[i]]
    ELSE Append(tbl, [key |-> key, ref |-> Len(tbl)])

Pointer(i) == Dict(<<Pair("*", PyInt(i))>>)
Reference(alias, xs) == Dict(<<Pair("&", PyStr(alias, 0)), Pair("_", List(xs))>>)

-----------------------------------------------------------------------------
(* copy.deepcopy *)

\* Strings, integers and None are returned as they are; an entity is rebuilt
\* from copies of its fields as a new object, once per call for each object
\* (memo).  st.next counts the entity objects created so far.
MemoHas(memo, id) == \E i \in 1..Len(memo) : memo[i][1] = id
MemoGet(memo, id) == memo[CHOOSE i \in 1..Len(memo) : memo[i][1] = id][2]

RECURSIVE DeepCopy(_, _, _)
RECURSIVE DeepCopySeq(_, _, _, _)
DeepCopy(v, next, memo) ==
    IF IsPrim(v) THEN [v |-> v, next |-> next, memo |-> memo]
    ELSE IF v.k = "ent" /\ MemoHas(memo, v.n)
    THEN [v |-> [v EXCEPT !.n = MemoGet(memo, v.n)], next |-> next, memo |-> memo]
    ELSE LET r == DeepCopySeq(v.c, next, memo, <<>>)
         IN IF v.k = "ent"
            THEN [v |-> Ent(v.s, r.v, r.next + 1), next |-> r.next + 1,
                  memo |-> Append(r.memo, <<v.n, r.next + 1>>)]
            ELSE [v |-> [v EXCEPT !.c = r.v], next |-> r.next, memo |-> r.memo]
DeepCopySeq(xs, next, memo, acc) ==
    IF xs = <<>> THEN [v |-> acc, next |-> next, memo |-> memo]
    ELSE LET r == DeepCopy(Head(xs), next, memo)
         IN DeepCopySeq(Tail(xs), r.next, r.memo, Append(acc, r.v))

\* deepcopy(obj) if copy else obj, in the decoders.
CopyOut(obj, st, cp) ==
    IF cp THEN LET r == DeepCopy(obj, st.next, <<>>)
               IN [v |-> r.v, st |-> [st EXCEPT !.next = r.next]]
    ELSE [v |-> obj, st |-> st]

\* TYPE_OF_ALIASES[js["&"]](*fields): the fields are bound by position.
ConstructPos(alias, xs, id) ==
    IF alias.k # "str" \/ alias.s \notin DOMAIN TYPE_OF_ALIASES THEN Err("KeyError")
    ELSE IF Len(xs) # Len(FIELDS[TYPE_OF_ALIASES[alias.s]]) THEN Err("TypeError")
    ELSE Ent(TYPE_OF_ALIASES[alias.s], xs, id)

-----------------------------------------------------------------------------
(* DeduplicatingSerializer *)

\* The encoders return [w : the wire tree or the error raised, t : obj_table].
RECURSIVE DedupEnc(_, _)
RECURSIVE DedupEncSeq(_, _, _)
DedupEnc(obj, tbl) ==
    IF obj.k = "list" THEN
        LET r == DedupEncSeq(obj.c, tbl, <<>>)
        IN [w |-> IF HasErr(r.w) THEN FirstErr(r.w) ELSE List(r.w), t |-> r.t]
    ELSE IF obj.k = "dict" THEN
        IF HasKey(obj, "*") \/ HasKey(obj, "&") THEN [w |-> Err("AssertionError"), t |-> tbl]
        ELSE LET ps == Sorted(obj.c)
                 r == DedupEncSeq([i \in 1..Len(ps) |-> ps[i].c[1]], tbl, <<>>)
             IN [w |-> IF HasErr(r.w) THEN FirstErr(r.w)
                       ELSE Dict([i \in 1..Len(ps) |-> Pair(ps[i].s, r.w[i])]),
                 t |-> r.t]
    ELSE IF obj.k = "ent" /\ obj.s \in DOMAIN ALIASES_OF_TYPE THEN
        LET key == PickleDumps(obj)
        IN IF TblHas(tbl, key) THEN [w |-> Pointer(TblGet(tbl, key)), t |-> tbl]
           ELSE LET r == DedupEncSeq(obj.c, tbl, <<>>)
                IN IF HasErr(r.w) THEN [w |-> FirstErr(r.w), t |-> r.t]
                   ELSE [w |-> Reference(ALIASES_OF_TYPE[obj.s], r.w), t |-> TblPut(r.t, key)]
    ELSE IF IsPrim(obj) THEN [w |-> obj, t |-> tbl]
    ELSE [w |-> Err("AssertionError"), t |-> tbl]
\* A comprehension: it stops at the first element that raises.
DedupEncSeq(xs, tbl, acc) ==
    IF xs = <<>> THEN [w |-> acc, t |-> tbl]
    ELSE LET r == DedupEnc(Head(xs), tbl)
         IN IF IsErr(r.w) THEN [w |-> Append(acc, r.w), t |-> r.t]
            ELSE DedupEncSeq(Tail(xs), r.t, Append(acc, r.w))

DedupEncode(obj) == DedupEnc(obj, <<>>).w

\* The decoders return [v : the value or the error raised, st], where
\* st.tbl is obj_table and st.next the number of entity objects created.
RECURSIVE DedupDec(_, _, _)
RECURSIVE DedupDecSeq(_, _, _, _)
DedupDec(js, st, cp) ==
    IF js.k = "list" THEN
        LET r == DedupDecSeq(js.c, st, cp, <<>>)
        IN [v |-> IF HasErr(r.v) THEN FirstErr(r.v) ELSE List(r.v), st |-> r.st]
    ELSE IF js.k = "dict" THEN
        IF HasKey(js, "*") THEN
            LET i == Lookup(js, "*")
            IN IF i.k # "int" \/ i.n < 0 \/ i.n >= Len(st.tbl)
               THEN [v |-> Err("IndexError"), st |-> st]
               ELSE CopyOut(st.tbl[i.n + 1], st, cp)
        ELSE IF HasKey(js, "&") THEN
            IF ~HasKey(js, "_") THEN [v |-> Err("KeyError"), st |-> st]
            ELSE LET r == DedupDecSeq(Lookup(js, "_").c, st, cp, <<>>)
                     obj == ConstructPos(Lookup(js, "&"), r.v, r.st.next + 1)
                 IN IF HasErr(r.v) THEN [v |-> FirstErr(r.v), st |-> r.st]
                    ELSE IF IsErr(obj) THEN [v |-> obj, st |-> r.st]
                    ELSE [v |-> obj,
                          st |-> [tbl |-> Append(r.st.tbl, obj), next |-> r.st.next + 1]]
        ELSE LET ps == Sorted(js.c)
                 r == DedupDecSeq([i \in 1..Len(ps) |-> ps[i].c[1]], st, cp, <<>>)
             IN [v |-> IF HasErr(r.v) THEN FirstErr(r.v)
                       ELSE Dict([i \in 1..Len(ps) |-> Pair(ps[i].s, r.v[i])]),
                 st |-> r.st]
    ELSE [v |-> js, st |-> st]
DedupDecSeq(xs, st, cp, acc) ==
    IF xs = <<>> THEN [v |-> acc, st |-> st]
    ELSE LET r == DedupDec(Head(xs), st, cp)
         IN IF IsErr(r.v) THEN [v |-> Append(acc, r.v), st |-> r.st]
            ELSE DedupDecSeq(Tail(xs), r.st, cp, Append(acc, r.v))

EmptyDecodeState == [tbl |-> <<>>, next |-> 0]
DedupDecode(js, cp) == DedupDec(js, EmptyDecodeState, cp).v

-----------------------------------------------------------------------------
(* FullyDeduplicatingSerializer *)

RECURSIVE FullEnc(_, _)
RECURSIVE FullEncInner(_, _)
RECURSIVE FullEncSeq(_, _, _)
\* "if ref:" in place of "if ref is not None:".
FullEncTruthyRef(obj, tbl) ==
    LET key == PickleDumps(obj)
    IN IF TblHas(tbl, key) /\ TblGet(tbl, key) # 0 THEN [w |-> Pointer(TblGet(tbl, key)), t |-> tbl]
       ELSE LET r == FullEncInner(obj, tbl)
            IN IF IsErr(r.w) THEN r ELSE [w |-> r.w, t |-> TblPut(r.t, key)]

FullEnc(obj, tbl) ==
    LET key == PickleDumps(obj)
    IN IF TblHas(tbl, key) THEN [w |-> Pointer(TblGet(tbl, key)), t |-> tbl]
       ELSE LET r == FullEncInner(obj, tbl)
            IN IF IsErr(r.w) THEN r ELSE [w |-> r.w, t |-> TblPut(r.t, key)]
\* _encode
FullEncInner(obj, tbl) ==
    IF obj.k = "list" THEN
        LET r == FullEncSeq(obj.c, tbl, <<>>)
        IN [w |-> IF HasErr(r.w) THEN FirstErr(r.w) ELSE List(r.w), t |-> r.t]
    ELSE IF obj.k = "dict" THEN
        IF HasKey(obj, "*") \/ HasKey(obj, "&") THEN [w |-> Err("AssertionError"), t |-> tbl]
        ELSE LET ps == Sorted(obj.c)
                 r == FullEncSeq([i \in 1..Len(ps) |-> ps[i].c[1]], tbl, <<>>)
             IN [w |-> IF HasErr(r.w) THEN FirstErr(r.w)
                       ELSE Dict([i \in 1..Len(ps) |-> Pair(ps[i].s, r.w[i])]),
                 t |-> r.t]
    ELSE IF obj.k = "ent" /\ obj.s \in DOMAIN ALIASES_OF_TYPE THEN
        LET r == FullEncSeq(obj.c, tbl, <<>>)
        IN [w |-> IF HasErr(r.w) THEN FirstErr(r.w) ELSE Reference(ALIASES_OF_TYPE[obj.s], r.w),
            t |-> r.t]
    ELSE IF IsPrim(obj) THEN [w |-> obj, t |-> tbl]
    ELSE [w |-> Err("AssertionError"), t |-> tbl]
FullEncSeq(xs, tbl, acc) ==
    IF xs = <<>> THEN [w |-> acc, t |-> tbl]
    ELSE LET r == FullEnc(Head(xs), tbl)
         IN IF IsErr(r.w) THEN [w |-> Append(acc, r.w), t |-> r.t]
            ELSE FullEncSeq(Tail(xs), r.t, Append(acc, r.w))

FullEncode(obj) == FullEnc(obj, <<>>).w

RECURSIVE FullDec(_, _, _)
RECURSIVE FullDecInner(_, _, _)
RECURSIVE FullDecSeq(_, _, _, _)
\* Only the containers and entities are appended to obj_table.
FullDecContainersOnly(js, st, cp) ==
    IF js.k = "dict" /\ HasKey(js, "*") THEN
        LET i == Lookup(js, "*")
        IN IF i.k # "int" \/ i.n < 0 \/ i.n >= Len(st.tbl)
           THEN [v |-> Err("IndexError"), st |-> st]
           ELSE CopyOut(st.tbl[i.n + 1], st, cp)
    ELSE LET r == FullDecInner(js, st, cp)
         IN IF IsErr(r.v) \/ IsPrim(r.v) THEN r
            ELSE [v |-> r.v, st |-> [r.st EXCEPT !.tbl = Append(r.st.tbl, r.v)]]

FullDec(js, st, cp) ==
    IF js.k = "dict" /\ HasKey(js, "*") THEN
        LET i == Lookup(js, "*")
        IN IF i.k # "int" \/ i.n < 0 \/ i.n >= Len(st.tbl)
           THEN [v |-> Err("IndexError"), st |-> st]
           ELSE CopyOut(st.tbl[i.n + 1], st, cp)
    ELSE LET r == FullDecInner(js, st, cp)
         IN IF IsErr(r.v) THEN r
            ELSE [v |-> r.v, st |-> [r.st EXCEPT !.tbl = Append(r.st.tbl, r.v)]]
\* _decode
FullDecInner(js, st, cp) ==
    IF js.k = "list" THEN
        LET r == FullDecSeq(js.c, st, cp, <<>>)
        IN [v |-> IF HasErr(r.v) THEN FirstErr(r.v) ELSE List(r.v), st |-> r.st]
    ELSE IF js.k = "dict" THEN
        IF HasKey(js, "&") THEN
            IF ~HasKey(js, "_") THEN [v |-> Err("KeyError"), st |-> st]
            ELSE LET r == FullDecSeq(Lookup(js, "_").c, st, cp, <<>>)
                     obj == ConstructPos(Lookup(js, "&"), r.v, r.st.next + 1)
                 IN IF HasErr(r.v) THEN [v |-> FirstErr(r.v), st |-> r.st]
                    ELSE IF IsErr(obj) THEN [v |-> obj, st |-> r.st]
                    ELSE [v |-> obj, st |-> [r.st EXCEPT !.next = r.st.next + 1]]
        ELSE LET ps == Sorted(js.c)
                 r == FullDecSeq([i \in 1..Len(ps) |-> ps[i].c[1]], st, cp, <<>>)
             IN [v |-> IF HasErr(r.v) THEN FirstErr(r.v)
                       ELSE Dict([i \in 1..Len(ps) |-> Pair(ps[i].s, r.v[i])]),
                 st |-> r.st]
    ELSE [v |-> js, st |-> st]
FullDecSeq(xs, st, cp, acc) ==
    IF xs = <<>> THEN [v |-> acc, st |-> st]
    ELSE LET r == FullDec(Head(xs), st, cp)
         IN IF IsErr(r.v) THEN [v |-> Append(acc, r.v), st |-> r.st]
            ELSE FullDecSeq(Tail(xs), r.st, cp, Append(acc, r.v))

FullDecode(js, cp) == FullDec(js, EmptyDecodeState, cp).v

-----------------------------------------------------------------------------
(* Cache: one (document, language) entry *)

\* The data of an entry is <<>> (None) or <<d>>, d a record of the four
\* values of the dict that put builds.

NormalizeKeepsTuples(obj) == obj

RECURSIVE Normalize(_)
Normalize(obj) ==
    IF obj.k \in {"list", "tuple", "ent"}
    THEN List([i \in 1..Len(obj.c) |-> Normalize(obj.c[i])])
    ELSE IF obj.k = "dict"
    THEN Dict([i \in 1..Len(obj.c) |-> Pair(obj.c[i].s, Normalize(obj.c[i].c[1]))])
    ELSE obj

\* Python's == on values: a list never equals a tuple, mappings are compared
\* as mappings, strings by content; a named tuple compares as a tuple.
RECURSIVE PyCanon(_)
PyCanon(v) ==
    IF v.k = "dict" THEN Dict(Sorted([i \in 1..Len(v.c) |-> Pair(v.c[i].s, PyCanon(v.c[i].c[1]))]))
    ELSE [k |-> IF v.k = "ent" THEN "tuple" ELSE v.k,
          n |-> IF v.k = "int" THEN v.n ELSE 0,
          s |-> IF v.k = "ent" THEN "" ELSE v.s,
          c |-> [i \in 1..Len(v.c) |-> PyCanon(v.c[i])]]
PyEq(a, b) == PyCanon(a) = PyCanon(b)

\* validate_detailed and validate_contents: data == reference.
ValidateDetailed(data, reference) == PyEq(data, reference)
ValidateContents(data, reference) == PyEq(data, reference)

ValidateConfigOnly(data, chunks, config) ==
    /\ data # <<>>
    /\ ValidateDetailed(data[1].config, config)

\* Cache._validate
CacheValidate(data, chunks, config) ==
    /\ data # <<>>
    /\ ValidateDetailed(data[1].config, config)
    /\ ValidateContents(data[1].chunks, chunks)

GetAlwaysMisses(data, chunks, metadata) == None

\* Cache.get: None, or the decoded annotation.
CacheGet(data, chunks, metadata) ==
    IF ~CacheValidate(data, Normalize(chunks), Normalize(metadata)) THEN None
    ELSE PlainDecode(data[1].annotated)

\* Cache.put: the new data; list(chunks) keeps the elements as they are.
CachePut(chunks, config, annotated, generator) ==
    [generator |-> Normalize(generator),
     config |-> Normalize(config),
     chunks |-> List(chunks.c),
     annotated |-> PlainEncode(annotated)]

\* A key that a data dict read from a file does not have.
Absent == [k |-> "absent", n |-> 0, s |-> "", c |-> <<>>]

\* The default of data.get("generator", ...).
GENERATOR_DEFAULT == Tuple(<<PyStr("Coq+SerAPI", 0), PyStr("??", 0)>>)

\* core.GeneratorInfo(*args): a pair, built from exactly two values.
GeneratorInfo(pair) == IF Len(pair.c) = 2 THEN Tuple(pair.c) ELSE Err("TypeError")

\* Cache.generator: self.data.get fails when data is None.
CacheGenerator(data) ==
    IF data = <<>> THEN Err("AttributeError")
    ELSE GeneratorInfo(IF data[1].generator = Absent THEN GENERATOR_DEFAULT
                       ELSE data[1].generator)

\* The prover collaborator: annotate returns the annotation ann or raises,
\* version_info returns gen or raises.
ProverOutcomes == {"ok", "annotate_raises", "version_info_raises"}

UpdateIfFalsy(data, chunks, config, outcome, ann, gen) ==
    LET got == CacheGet(data, chunks, config)
    IN IF Truthy(got) THEN [data |-> data, ret |-> got, calls |-> 0, raised |-> FALSE]
       ELSE IF outcome = "ok"
       THEN [data |-> <<CachePut(chunks, config, ann, gen)>>, ret |-> ann,
             calls |-> 1, raised |-> FALSE]
       ELSE [data |-> data, ret |-> Err(outcome), calls |-> 1, raised |-> TRUE]

UpdatePutsFirst(data, chunks, config, outcome, ann, gen) ==
    LET got == CacheGet(data, chunks, config)
    IN IF got # None THEN [data |-> data, ret |-> got, calls |-> 0, raised |-> FALSE]
       ELSE IF outcome = "annotate_raises"
       THEN [data |-> data, ret |-> Err(outcome), calls |-> 1, raised |-> TRUE]
       ELSE [data |-> <<CachePut(chunks, config, ann, gen)>>,
             ret |-> IF outcome = "ok" THEN ann ELSE Err(outcome),
             calls |-> 1, raised |-> outcome # "ok"]

UpdateRefreshesOnHit(data, chunks, config, outcome, ann, gen) ==
    LET got == CacheGet(data, chunks, config)
    IN IF got # None
       THEN [data |-> <<CachePut(chunks, config, got, gen)>>, ret |-> got, calls |-> 0,
             raised |-> FALSE]
       ELSE IF outcome = "ok"
       THEN [data |-> <<CachePut(chunks, config, ann, gen)>>, ret |-> ann,
             calls |-> 1, raised |-> FALSE]
       ELSE [data |-> data, ret |-> Err(outcome), calls |-> 1, raised |-> TRUE]

\* Cache.update: the entry's data afterwards, what the call returned (or the
\* error it raised) and the number of prover.annotate calls it made.
CacheUpdate(data, chunks, config, outcome, ann, gen) ==
    LET got == CacheGet(data, chunks, config)
    IN IF got # None THEN [data |-> data, ret |-> got, calls |-> 0, raised |-> FALSE]
       ELSE IF outcome = "ok"
       THEN [data |-> <<CachePut(chunks, config, ann, gen)>>, ret |-> ann,
             calls |-> 1, raised |-> FALSE]
       ELSE [data |-> data, ret |-> Err(outcome), calls |-> 1, raised |-> TRUE]

-----------------------------------------------------------------------------
(* FileCacheSet: the cache file of one document *)

CACHE_VERSION == "2"
METADATA == [cache_version |-> CACHE_VERSION]

\* KNOWN_COMPRESSIONS, in the order of the dict.
KNOWN_COMPRESSIONS == <<"none", "gzip", "xz">>
Compressions == {KNOWN_COMPRESSIONS[i] : i \in 1..Len(KNOWN_COMPRESSIONS)}

\* json.dump then json.load: tuples come back as lists.
RECURSIVE JsonValue(_)
JsonValue(v) ==
    [k |-> IF v.k \in {"tuple", "ent"} THEN "list" ELSE v.k,
     n |-> IF v.k = "int" THEN v.n ELSE 0,
     s |-> IF v.k = "ent" THEN "" ELSE v.s,
     c |-> [i \in 1..Len(v.c) |-> JsonValue(v.c[i])]]
JsonData(d) ==
    IF d = <<>> THEN <<>>
    ELSE <<[generator |-> JsonValue(d[1].generator), config |-> JsonValue(d[1].config),
            chunks |-> JsonValue(d[1].chunks), annotated |-> JsonValue(d[1].annotated)]>>
JsonFile(js) ==
    [metadata |-> js.metadata, caches |-> [l \in DOMAIN js.caches |-> JsonData(js.caches[l])]]

\* == on two data dicts, and on two snapshots (each <<>> for None, or <<js>>).
DataEq(a, b) ==
    IF a = <<>> \/ b = <<>> THEN a = b
    ELSE /\ PyEq(a[1].generator, b[1].generator) /\ PyEq(a[1].config, b[1].config)
         /\ PyEq(a[1].chunks, b[1].chunks) /\ PyEq(a[1].annotated, b[1].annotated)
JsEq(a, b) ==
    IF a = <<>> \/ b = <<>> THEN a = b
    ELSE /\ a[1].metadata = b[1].metadata
         /\ DOMAIN a[1].caches = DOMAIN b[1].caches
         /\ \A l \in DOMAIN a[1].caches : DataEq(a[1].caches[l], b[1].caches[l])

\* FileCacheSet._read: the first known compression under which a file exists.
ReadCompression(d) ==
    IF \A i \in 1..Len(KNOWN_COMPRESSIONS) : d[KNOWN_COMPRESSIONS[i]] = <<>> THEN <<>>
    ELSE <<KNOWN_COMPRESSIONS[CHOOSE i \in 1..Len(KNOWN_COMPRESSIONS) :
                /\ d[KNOWN_COMPRESSIONS[i]] # <<>>
                /\ \A j \in 1..(i - 1) : d[KNOWN_COMPRESSIONS[j]] = <<>>]>>
ReadJs(d) == IF ReadCompression(d) = <<>> THEN <<>> ELSE d[ReadCompression(d)[1]]

\* FileCacheSet._validate
FileValidate(js) == js # <<>> /\ js[1].metadata = METADATA

LoadCachesUnchecked(js) == IF js # <<>> THEN js[1].caches ELSE <<>>

\* The caches dict built by __init__.
LoadCaches(js) == IF FileValidate(js) THEN js[1].caches ELSE <<>>

\* The snapshot _write builds.
Snapshot(caches) == [metadata |-> METADATA, caches |-> caches]

\* FileCacheSet._check_recompression
CheckRecompression(s) == s.ondisk # <<s.wanted>>

WriteAlways(s) == TRUE

WriteOnlyRecompression(s) == CheckRecompression(s)

WriteIfPopulated(s) ==
    DOMAIN s.puts # {} /\ (~JsEq(<<Snapshot(s.caches)>>, s.js) \/ CheckRecompression(s))

\* The condition of _write.
WriteNeeded(s) == ~JsEq(<<Snapshot(s.caches)>>, s.js) \/ CheckRecompression(s)

\* _delete_old_caches: the files unlinked.
DeleteOldCaches(d) == {c \in Compressions : d[c] # <<>>}

ForceWriteKeepsOld(d, s) == [d EXCEPT ![s.wanted] = <<JsonFile(Snapshot(s.caches))>>]

ForceWriteOnlyPuts(d, s) ==
    [[c \in Compressions |-> <<>>] EXCEPT
        ![s.wanted] = <<JsonFile(Snapshot([l \in DOMAIN s.puts |-> s.caches[l]]))>>]

\* _force_write: the disk afterwards.
ForceWrite(d, s) ==
    [[c \in Compressions |-> <<>>] EXCEPT ![s.wanted] = <<JsonFile(Snapshot(s.caches))>>]

-----------------------------------------------------------------------------
(* Sessions: open a cache set, use its entries, leave the scope *)

Langs == {"coq", "lean3"}

\* cache_compression as given; "None" stands for Python's None.
RequestedCompressions == {"None", "", "none", "gzip", "xz", "bz2"}

\* The values of cache_compression that are falsy in Python.
Falsy == {"None", ""}

WantedOrDefault(requested) == IF requested \in Compressions THEN requested ELSE "none"

\* cache_compression or "none"
WantedCompression(requested) == IF requested \in Falsy THEN "none" ELSE requested

\* The files _read tries to open, in order: it stops at the first one found.
Probed(d) ==
    LET n == Len(KNOWN_COMPRESSIONS)
        firstAt == IF ReadCompression(d) = <<>> THEN n
                   ELSE CHOOSE i \in 1..n : KNOWN_COMPRESSIONS[i] = ReadCompression(d)[1]
    IN SubSeq(KNOWN_COMPRESSIONS, 1, firstAt)

\* Besides the fields of the object (wanted_compression, ondisk_compression,
\* js, caches), the model records what the session found when it opened
\* (found, loaded), whether the caches dict or an entry was changed since
\* (mutated), the arguments of the last put on each entry (puts), whether
\* an exception is leaving the body (exn) and, for each language, the
\* arguments of the last put made on its entry in the sessions closed
\* before this one (earlier), and whether the gets and updates of the
\* session so far were all hits (hits: "none" before the first of them,
\* "only", or "not_only" after a miss, a put or the creation of an entry).
NoCacheSet ==
    [phase |-> "none", wanted |-> "none", ondisk |-> <<>>, js |-> <<>>,
     caches |-> <<>>, found |-> <<>>, loaded |-> <<>>, mutated |-> FALSE,
     puts |-> <<>>, exn |-> FALSE, earlier |-> <<>>, hits |-> "none"]

\* The hits field after a get or an update that hit, or did not.
AfterLookup(s, hit) == IF hit /\ s.hits # "not_only" THEN "only" ELSE "not_only"

\* What the sessions closed so far stored last, once s is closed.
EarlierPuts(s) ==
    [l \in DOMAIN s.earlier \cup DOMAIN s.puts |->
        IF l \in DOMAIN s.puts THEN s.puts[l] ELSE s.earlier[l]]

\* The record of an operation: besides its arguments and result, the
\* directory it made sure exists (made), the files it tried to open for
\* reading, in order (probed), the files it unlinked (deleted) and wrote
\* (written), and, for an update, whether the entry had not been given a
\* value by a put of this session before the call (fresh) and, through the
\* no-cache set, whether the previous update of the scope on that language
\* stored the same chunks and config (repeat).
NoOp ==
    [op |-> "none", lang |-> "", chunks |-> None, config |-> None, ret |-> None,
     calls |-> 0, raised |-> FALSE, deleted |-> {}, written |-> {}, propagated |-> FALSE,
     requested |-> "", made |-> FALSE, probed |-> <<>>, fresh |-> FALSE,
     repeat |-> FALSE]

\* FileCacheSet.__init__ (and __enter__).
Open(requested) ==
    /\ cs.phase \notin {"open", "nocache"}
    /\ LET wanted == WantedCompression(requested)
       IN IF wanted \notin Compressions
          THEN /\ cs' = [NoCacheSet EXCEPT !.earlier = cs.earlier]
               /\ last' = [NoOp EXCEPT !.op = "open", !.requested = requested,
                                       !.ret = Err("ValueError"), !.raised = TRUE]
          ELSE /\ cs' = [phase |-> "open", wanted |-> wanted,
                         ondisk |-> ReadCompression(disk), js |-> ReadJs(disk),
                         caches |-> LoadCaches(ReadJs(disk)),
                         found |-> ReadCompression(disk), loaded |-> ReadJs(disk),
                         mutated |-> FALSE, puts |-> <<>>, exn |-> FALSE,
                         earlier |-> cs.earlier, hits |-> "none"]
               /\ last' = [NoOp EXCEPT !.op = "open", !.requested = requested,
                                       !.made = TRUE, !.probed = Probed(disk)]
    /\ UNCHANGED <<disk, serVars, cliVars>>

InBody == cs.phase = "open" /\ ~cs.exn

\* FileCacheSet.__getitem__
GetItem(lang) ==
    /\ InBody
    /\ cs' = IF lang \in DOMAIN cs.caches THEN cs
             ELSE [cs EXCEPT !.caches = [l \in DOMAIN cs.caches \cup {lang} |->
                                           IF l = lang THEN <<>> ELSE cs.caches[l]],
                             !.mutated = TRUE, !.hits = "not_only"]
    /\ last' = [NoOp EXCEPT !.op = "getitem", !.lang = lang]
    /\ UNCHANGED <<disk, serVars, cliVars>>

SetPut(puts, lang, put_args) ==
    [l \in DOMAIN puts \cup {lang} |-> IF l = lang THEN <<put_args>> ELSE puts[l]]

\* Cache.put on the entry of lang.
Put(lang, chunks, config, annotated, generator) ==
    /\ InBody /\ lang \in DOMAIN cs.caches
    /\ cs' = [cs EXCEPT !.caches[lang] = <<CachePut(chunks, config, annotated, generator)>>,
                        !.mutated = TRUE, !.hits = "not_only",
                        !.puts = SetPut(cs.puts, lang,
                                     [chunks |-> chunks, config |-> config, annotated |-> annotated])]
    /\ last' = [NoOp EXCEPT !.op = "put", !.lang = lang, !.chunks = chunks, !.config = config]
    /\ UNCHANGED <<disk, serVars, cliVars>>

\* Cache.get on the entry of lang.
Get(lang, chunks, config) ==
    /\ InBody /\ lang \in DOMAIN cs.caches
    /\ last' = [NoOp EXCEPT !.op = "get", !.lang = lang, !.chunks = chunks, !.config = config,
                            !.ret = CacheGet(cs.caches[lang], chunks, config)]
    /\ cs' = [cs EXCEPT !.hits = AfterLookup(cs, CacheGet(cs.caches[lang], chunks, config) # None)]
    /\ UNCHANGED <<disk, serVars, cliVars>>

\* Cache.update on the entry of lang; a prover failure leaves the body.
Update(lang, chunks, config, outcome, ann, gen) ==
    /\ InBody /\ lang \in DOMAIN cs.caches
    /\ \E r \in {CacheUpdate(cs.caches[lang], chunks, config, outcome, ann, gen)} :
          /\ cs' = [cs EXCEPT !.caches[lang] = r.data,
                              !.mutated = cs.mutated \/ r.data # cs.caches[lang],
                              !.puts = IF r.calls = 1 /\ ~r.raised
                                       THEN SetPut(cs.puts, lang,
                                                [chunks |-> chunks, config |-> config, annotated |-> ann])
                                       ELSE cs.puts,
                              !.hits = AfterLookup(cs, r.calls = 0),
                              !.exn = r.raised]
          /\ last' = [NoOp EXCEPT !.op = "update", !.lang = lang, !.chunks = chunks,
                                  !.config = config, !.ret = r.ret, !.calls = r.calls,
                                  !.raised = r.raised, !.fresh = lang \notin DOMAIN cs.puts]
    /\ UNCHANGED <<disk, serVars, cliVars>>

\* Reading the generator property of the entry of lang.
Generator(lang) ==
    /\ InBody /\ lang \in DOMAIN cs.caches
    /\ \E g \in {CacheGenerator(cs.caches[lang])} :
          /\ cs' = [cs EXCEPT !.exn = IsErr(g)]
          /\ last' = [NoOp EXCEPT !.op = "generator", !.lang = lang, !.ret = g,
                                  !.raised = IsErr(g)]
    /\ UNCHANGED <<disk, serVars, cliVars>>

\* The body of the with statement raises for a reason of its own.
BodyRaise ==
    /\ InBody
    /\ cs' = [cs EXCEPT !.exn = TRUE]
    /\ last' = [NoOp EXCEPT !.op = "raise", !.raised = TRUE]
    /\ UNCHANGED <<disk, serVars, cliVars>>

\* The body catches the failure of an update and goes on.
BodyCatch ==
    /\ cs.phase = "open" /\ cs.exn /\ last.op \in {"update", "generator"}
    /\ cs' = [cs EXCEPT !.exn = FALSE]
    /\ last' = [NoOp EXCEPT !.op = "catch"]
    /\ UNCHANGED <<disk, serVars, cliVars>>

ExitSkipsWriteOnError(s) == IF s.exn THEN FALSE ELSE WriteNeeded(s)

\* Whether __exit__ writes: it calls _write whatever made the body end.
ExitWrites(s) == WriteNeeded(s)

\* What __exit__ returns is False: a pending exception goes on to the caller.
ExitPropagates(s) == s.exn

\* FileCacheSet.__exit__, with _write.
Exit ==
    /\ cs.phase = "open"
    /\ \E writes \in {ExitWrites(cs)} :
          IF writes
          THEN /\ disk' = ForceWrite(disk, cs)
               /\ cs' = [cs EXCEPT !.phase = "closed", !.js = <<Snapshot(cs.caches)>>,
                                   !.ondisk = <<cs.wanted>>, !.earlier = EarlierPuts(cs)]
               /\ last' = [NoOp EXCEPT !.op = "exit", !.deleted = DeleteOldCaches(disk),
                                       !.written = {cs.wanted}, !.raised = cs.exn,
                                       !.propagated = ExitPropagates(cs)]
          ELSE /\ disk' = disk
               /\ cs' = [cs EXCEPT !.phase = "closed", !.earlier = EarlierPuts(cs)]
               /\ last' = [NoOp EXCEPT !.op = "exit", !.raised = cs.exn,
                                       !.propagated = ExitPropagates(cs)]
    /\ UNCHANGED <<serVars, cliVars>>

-----------------------------------------------------------------------------
(* DummyCacheSet: the set used when there is no cache root *)

\* A scope of the no-cache set has phase "nocache".  The set keeps nothing;
\* caches holds, for each language, the data of the entry object that the
\* last indexing handed out, as the update made on it left it.

CacheRoots == {"None", "cache"}

\* DummyCacheSet.__init__ (and __enter__): the arguments are ignored.
DummyInit(requested) ==
    /\ cs.phase \notin {"open", "nocache"}
    /\ cs' = [NoCacheSet EXCEPT !.phase = "nocache", !.earlier = cs.earlier]
    /\ last' = [NoOp EXCEPT !.op = "dummy_init", !.requested = requested]
    /\ UNCHANGED <<disk, serVars, cliVars>>

DummyGetItemKept(s, lang) == IF lang \in DOMAIN s.caches THEN s.caches[lang] ELSE <<>>

\* DummyCacheSet.__getitem__: the data of the entry it returns.
DummyGetItem(s, lang) == <<>>

\* caches[lang].update(chunks, prover, config) on the no-cache set.
DummyUpdate(lang, chunks, config, outcome, ann, gen) ==
    /\ cs.phase = "nocache" /\ ~cs.exn
    /\ \E r \in {CacheUpdate(DummyGetItem(cs, lang), chunks, config, outcome, ann, gen)} :
          /\ cs' = [cs EXCEPT !.caches = [l \in DOMAIN cs.caches \cup {lang} |->
                                            IF l = lang THEN r.data ELSE cs.caches[l]],
                              !.exn = r.raised]
          /\ last' = [NoOp EXCEPT !.op = "dummy_update", !.lang = lang, !.chunks = chunks,
                                  !.config = config, !.ret = r.ret, !.calls = r.calls,
                                  !.raised = r.raised, !.fresh = TRUE,
                                  !.repeat = /\ lang \in DOMAIN cs.caches
                                             /\ CacheValidate(cs.caches[lang], Normalize(chunks),
                                                              Normalize(config))]
    /\ UNCHANGED <<disk, serVars, cliVars>>

\* caches[lang].generator on the no-cache set.
DummyGenerator(lang) ==
    /\ cs.phase = "nocache" /\ ~cs.exn
    /\ \E g \in {CacheGenerator(DummyGetItem(cs, lang))} :
          /\ cs' = [cs EXCEPT !.exn = IsErr(g)]
          /\ last' = [NoOp EXCEPT !.op = "dummy_generator", !.lang = lang, !.ret = g,
                                  !.raised = IsErr(g)]
    /\ UNCHANGED <<disk, serVars, cliVars>>

\* DummyCacheSet.__exit__ returns False and does nothing else.
DummyExit ==
    /\ cs.phase = "nocache"
    /\ cs' = [cs EXCEPT !.phase = "closed"]
    /\ last' = [NoOp EXCEPT !.op = "dummy_exit", !.raised = cs.exn, !.propagated = cs.exn]
    /\ UNCHANGED <<disk, serVars, cliVars>>

\* CacheSet(cache_root, doc_path, cache_compression)
CacheSet(cache_root, requested) ==
    IF cache_root = "None" THEN DummyInit(requested) ELSE Open(requested)

-----------------------------------------------------------------------------
(* What the sessions are given *)

Chunk(x) == PyStr(x, 0)
\* Chunk sequences: empty, one chunk, the same with an empty chunk appended,
\* another chunk, and the one chunk given as a tuple.
ChunkSeqs ==
    { List(<<>>), List(<<Chunk("a")>>), List(<<Chunk("a"), Chunk("")>>),
      List(<<Chunk("b")>>), Tuple(<<Chunk("a")>>) }
FileChunkSeqs == {List(<<Chunk("a")>>), List(<<Chunk("b")>>)}

Config(sertop_args) == Dict(<<Pair("args", sertop_args)>>)
Configs ==
    { Config(List(<<>>)), Config(Tuple(<<>>)), Config(List(<<PyStr("-Q", 0)>>)),
      Dict(<<Pair("args", List(<<>>)), Pair("k", PyInt(0))>>) }

\* args.prover_config of post_process_arguments, with no sertop argument.
PROVER_CONFIG == [coq |-> Config(List(<<>>)), lean3 |-> Config(Tuple(<<>>))]

\* prover.annotate returns one fragment list for each chunk.
Fragments == { List(<<Ent("Text", <<PyStr("a", 1)>>, 0)>>),
               List(<<Ent("Message", <<PyStr("a", 1)>>, 0), Ent("Text", <<None>>, 0)>>) }
AnnotationsFor(chunks) == {List([i \in 1..Len(chunks.c) |-> f]) : f \in Fragments}

\* What the prover answers in the sessions of Spec.
FileAnnotation(chunks) == List([i \in 1..Len(chunks.c) |-> List(<<Ent("Text", <<chunks.c[i]>>, 0)>>)])

\* prover.version_info()
ProverVersion == Tuple(<<PyStr("Coq+SerAPI", 0), PyStr("8.13", 0)>>)
OlderVersion == Tuple(<<PyStr("Coq+SerAPI", 0), PyStr("8.12", 0)>>)

\* The cache directory before the first session: no file for the document,
\* or one file, under any compression, written by this version of the
\* program or by one with another cache version.
OldData ==
    JsonData(<<CachePut(List(<<Chunk("a")>>), PROVER_CONFIG.coq,
                        List(<<List(<<Ent("Text", <<PyStr("a", 1)>>, 0)>>)>>), OlderVersion)>>)
OldDataOf(lang) ==
    JsonData(<<CachePut(List(<<Chunk("a")>>), PROVER_CONFIG[lang],
                        List(<<List(<<Ent("Text", <<PyStr("a", 1)>>, 0)>>)>>), OlderVersion)>>)
OldFiles ==
    { [metadata |-> METADATA, caches |-> [l \in {"coq"} |-> OldData]],
      [metadata |-> METADATA,
       caches |-> [l \in {"coq"} |-> <<[OldData[1] EXCEPT !.generator = Absent]>>]],
      [metadata |-> [cache_version |-> "1"], caches |-> [l \in Langs |-> OldDataOf(l)]] }
InitialDisks ==
    {[c \in Compressions |-> <<>>]}
    \cup {[c \in Compressions |-> IF c = at THEN <<js>> ELSE <<>>] :
            at \in Compressions, js \in OldFiles}

InitCache == cs = NoCacheSet /\ last = NoOp

\* No command line is running.
NoArgs ==
    [input |-> <<>>, frontend |-> "", backend |-> "", output |-> <<>>,
     html_minification |-> FALSE, assets |-> <<>>, html_classes |-> <<>>,
     pipelines |-> <<>>, cache_directory |-> "None", cache_compression |-> "None"]
NoRun ==
    [pc |-> "idle", doc |-> 0, step |-> 0, state |-> [none |-> TRUE, doc |-> <<>>, hist |-> <<>>],
     ctx |-> <<>>, calls |-> <<>>, err |-> <<>>, runs |-> 0, annotated |-> {},
     failed |-> <<>>]
InitCliIdle == args = NoArgs /\ run = NoRun /\ cachedir = <<>> /\ procs = <<>>
InitSerIdle == sv = None /\ ser = "none" /\ wire = <<>> /\ dec = <<>> /\ copy = FALSE

-----------------------------------------------------------------------------
(* Spec: sessions on the cache file of one document, as annotate_chunks    *)
(* and other callers run them                                              *)

Init == InitSerIdle /\ InitCliIdle /\ InitCache /\ disk \in InitialDisks

OpenSession == \E root \in CacheRoots, r \in RequestedCompressions : CacheSet(root, r)
IndexLang == \E l \in Langs : GetItem(l)
ReadGenerator == \E l \in Langs : Generator(l) \/ DummyGenerator(l)
UpdateNoCache ==
    \E l \in Langs, ch \in FileChunkSeqs, o \in ProverOutcomes :
        DummyUpdate(l, ch, PROVER_CONFIG[l], o, FileAnnotation(ch), ProverVersion)
UpdateLang ==
    \E l \in Langs, ch \in FileChunkSeqs, o \in ProverOutcomes :
        Update(l, ch, PROVER_CONFIG[l], o, FileAnnotation(ch), ProverVersion)

Next ==
    \/ OpenSession \/ IndexLang \/ UpdateLang \/ ReadGenerator
    \/ BodyRaise \/ BodyCatch \/ Exit
    \/ UpdateNoCache \/ DummyExit

Spec == Init /\ [][Next]_vars

-----------------------------------------------------------------------------
(* SpecEntry: the operations of one entry, with every argument *)

InitEntry == InitSerIdle /\ InitCliIdle /\ InitCache /\ disk = [c \in Compressions |-> <<>>]

OpenEntrySession == Open("none")
IndexEntry == GetItem("coq")
PutEntry ==
    \E ch \in ChunkSeqs, cf \in Configs :
        \E ann \in AnnotationsFor(ch) : Put("coq", ch, cf, ann, ProverVersion)
GetEntry == \E ch \in ChunkSeqs, cf \in Configs : Get("coq", ch, cf)
UpdateEntry ==
    \E ch \in ChunkSeqs, cf \in Configs, o \in ProverOutcomes :
        \E ann \in AnnotationsFor(ch) : Update("coq", ch, cf, o, ann, ProverVersion)

GeneratorEntry == Generator("coq")

NextEntry ==
    \/ OpenEntrySession \/ IndexEntry \/ PutEntry \/ GetEntry \/ UpdateEntry
    \/ GeneratorEntry \/ BodyCatch

SpecEntry == InitEntry /\ [][NextEntry]_vars

-----------------------------------------------------------------------------
(* Properties of one entry, checked under SpecEntry *)

\* The content of a sequence or mapping, whatever the form (list or tuple)
\* of the sequences in it.
RECURSIVE SeqForm(_)
SeqForm(v) ==
    [k |-> IF v.k = "tuple" THEN "list" ELSE v.k, n |-> v.n, s |-> v.s,
     c |-> [i \in 1..Len(v.c) |-> SeqForm(v.c[i])]]
ContentEq(a, b) == PyEq(SeqForm(a), SeqForm(b))

\* The pair the entry of lang stores in s: the arguments of its last put.
Stored(s, lang) == IF lang \in DOMAIN s.puts THEN s.puts[lang] ELSE <<>>
SamePair(stored, chunks, config) ==
    /\ stored # <<>>
    /\ ContentEq(chunks, stored[1].chunks)
    /\ ContentEq(config, stored[1].config)

\* C1: an update whose chunks and config equal the stored pair calls
\* prover.annotate zero times, returns the stored annotation and stores
\* nothing; any other update (on an empty entry too) calls prover.annotate
\* exactly once and, when the prover returns, stores the result with the
\* chunks and config of the call and returns it.
C1_UpdateHitOrMiss ==
    [][last'.op = "update" =>
         LET l == last'.lang
             stored == Stored(cs, l)
         IN IF SamePair(stored, last'.chunks, last'.config)
            THEN /\ last'.calls = 0 /\ ~last'.raised
                 /\ StructEq(last'.ret, stored[1].annotated)
                 /\ cs'.caches = cs.caches
            ELSE /\ last'.calls = 1
                 /\ ~last'.raised =>
                      /\ cs'.caches[l] # <<>>
                      /\ StructEq(PlainDecode(cs'.caches[l][1].annotated), last'.ret)
                      /\ StructEq(Stored(cs', l)[1].annotated, last'.ret)
                      /\ PyEq(cs'.caches[l][1].chunks, SeqForm(last'.chunks))
                      /\ PyEq(cs'.caches[l][1].config, SeqForm(last'.config))]_vars

\* An update of a document with no chunk hit: it returned the stored, empty
\* annotation without calling the prover.
C1_Witness ==
    /\ last.op = "update" /\ last.calls = 0
    /\ last.chunks = List(<<>>) /\ last.ret = List(<<>>)
    /\ cs.caches["coq"] # <<>>

\* C2: after a put on an entry, get returns a value equal to the annotation
\* put if and only if its chunks equal the chunks put, element by element
\* and in order, and its config equals the config put; otherwise it returns
\* None, and it never raises.
C2_GetExactMatch ==
    (last.op = "get" /\ Stored(cs, last.lang) # <<>>) =>
        LET stored == Stored(cs, last.lang)
        IN /\ ~IsErr(last.ret)
           /\ StructEq(last.ret, stored[1].annotated)
                 <=> SamePair(stored, last.chunks, last.config)
           /\ ~SamePair(stored, last.chunks, last.config) => last.ret = None

\* A get with one more (empty) chunk than was put, and the same config, missed.
C2_Witness ==
    /\ last.op = "get" /\ last.ret = None
    /\ Stored(cs, "coq") # <<>>
    /\ Stored(cs, "coq")[1].chunks = List(<<Chunk("a")>>)
    /\ last.chunks = List(<<Chunk("a"), Chunk("")>>)
    /\ last.config = Stored(cs, "coq")[1].config

\* C10: when annotate or version_info raises during update, the failure
\* leaves update (the body sees an exception), the data of every entry is
\* what it was before the call, and the pair stored before still hits.
C10_ProverFailureKeepsEntry ==
    [][(last'.op = "update" /\ last'.raised) =>
         /\ IsErr(last'.ret) /\ cs'.exn
         /\ cs'.caches = cs.caches
         /\ \A l \in DOMAIN cs.puts :
               StructEq(CacheGet(cs'.caches[l], cs.puts[l][1].chunks, cs.puts[l][1].config),
                        cs.puts[l][1].annotated)]_vars

\* version_info raised, after annotate had returned, on a populated entry.
C10_Witness ==
    /\ last.op = "update" /\ last.raised /\ last.ret = Err("version_info_raises")
    /\ cs.caches["coq"] # <<>>
    /\ ~SamePair(Stored(cs, "coq"), last.chunks, last.config)

-----------------------------------------------------------------------------
(* Properties of the cache file, checked under Spec *)

OnlyFile(d, c) == d[c] # <<>> /\ \A o \in Compressions \ {c} : d[o] = <<>>

SameEntries(a, b) ==
    /\ DOMAIN a = DOMAIN b
    /\ \A l \in DOMAIN a : DataEq(a[l], b[l])

\* A session that found a file, changed neither its caches dict nor an entry
\* and was closed.
IdleSessionClosed == last.op = "exit" /\ ~cs.mutated /\ cs.found # <<>>

\* C7 as stated: a session opened on an existing cache file under the
\* compression it requests, closed without a mutation, deletes no file and
\* writes no file.
C7_IdleCloseWritesNothing ==
    (IdleSessionClosed /\ cs.found = <<cs.wanted>>) =>
        last.deleted = {} /\ last.written = {}

\* C7, amended: the same, for a file whose metadata match the current cache
\* version; the file is left as it was.
C7_IdleCloseOfValidFileWritesNothing ==
    (IdleSessionClosed /\ cs.found = <<cs.wanted>> /\ FileValidate(cs.loaded)) =>
        /\ last.deleted = {} /\ last.written = {}
        /\ OnlyFile(disk, cs.wanted) /\ disk[cs.wanted] = cs.loaded

C7_Witness ==
    /\ IdleSessionClosed /\ cs.found = <<cs.wanted>> /\ FileValidate(cs.loaded)
    /\ cs.wanted = "xz" /\ DOMAIN cs.caches # {}

\* C8 as stated: a session opened on a file stored under one compression
\* with another one requested, then closed, leaves exactly one cache file,
\* under the requested compression, holding the same entries.
C8_MigrationKeepsEntries ==
    (IdleSessionClosed /\ cs.found # <<cs.wanted>>) =>
        /\ OnlyFile(disk, cs.wanted)
        /\ SameEntries(disk[cs.wanted][1].caches, cs.loaded[1].caches)

\* C8, amended: exactly one cache file is left, under the requested
\* compression; it holds the same entries when the metadata of the file
\* found match the current cache version, and no entry when they do not.
C8_MigrationOfValidFileKeepsEntries ==
    (IdleSessionClosed /\ cs.found # <<cs.wanted>>) =>
        /\ OnlyFile(disk, cs.wanted)
        /\ last.written = {cs.wanted} /\ last.deleted = {cs.found[1]}
        /\ disk[cs.wanted][1].metadata = METADATA
        /\ IF FileValidate(cs.loaded)
           THEN SameEntries(disk[cs.wanted][1].caches, cs.loaded[1].caches)
           ELSE DOMAIN disk[cs.wanted][1].caches = {}

C8_Witness ==
    /\ IdleSessionClosed /\ cs.found = <<"gzip">> /\ cs.wanted = "none"
    /\ FileValidate(cs.loaded) /\ DOMAIN cs.loaded[1].caches # {}
    /\ disk["gzip"] = <<>> /\ disk["none"] # <<>>

\* The disk holds the entries of the session, in one file under the
\* compression it requested.
Persisted ==
    /\ OnlyFile(disk, cs.wanted)
    /\ JsEq(disk[cs.wanted], <<JsonFile(Snapshot(cs.caches))>>)

\* C9: leaving the scope persists the changes recorded in the session in the
\* same way whether the body returned or raised, and an exception raised in
\* the body goes on to the caller.
C9_PersistOnEveryExit ==
    last.op = "exit" =>
        /\ DOMAIN cs.puts # {} => Persisted
        /\ last.raised => last.propagated

\* The body raised after an entry had been populated on lean3; the
\* exception went on to the caller and the entry is in the file.
C9_Witness ==
    /\ last.op = "exit" /\ last.raised /\ last.propagated
    /\ "lean3" \in DOMAIN cs.puts
    /\ last.written = {cs.wanted}
    /\ disk[cs.wanted][1].caches["lean3"] # <<>>

\* A session opened on a file whose metadata are not those of this version.
StaleFile(s) == s.loaded # <<>> /\ ~FileValidate(s.loaded)

\* C11: a session opened on a cache file whose metadata do not match the
\* current cache version starts with no entry and opening raises nothing;
\* for every language stored in that file, an update on an entry that no put
\* of the session has filled calls prover.annotate once, whatever its chunks
\* and config, and raises nothing but a failure of the prover.
C11_VersionMismatchInvalidatesAll ==
    /\ (last.op = "open" /\ cs.phase = "open" /\ StaleFile(cs)) =>
            DOMAIN cs.caches = {} /\ ~last.raised
    /\ (last.op = "update" /\ StaleFile(cs) /\ last.fresh
            /\ last.lang \in DOMAIN cs.loaded[1].caches) =>
            /\ last.calls = 1
            /\ last.raised => last.ret \in {Err(o) : o \in ProverOutcomes \ {"ok"}}

\* The first update on lean3 after a file of another version was loaded,
\* with the chunks and config that file stores for lean3: the prover ran.
C11_Witness ==
    /\ last.op = "update" /\ StaleFile(cs) /\ last.fresh /\ last.lang = "lean3"
    /\ last.calls = 1 /\ ~last.raised
    /\ PyEq(cs.loaded[1].caches["lean3"][1].chunks, Normalize(last.chunks))
    /\ PyEq(cs.loaded[1].caches["lean3"][1].config, Normalize(last.config))

\* C13: constructing a FileCacheSet with a compression name outside none,
\* gzip and xz raises ValueError before the cache directory is made and
\* before any file is opened, unlinked or written, and no cache set comes
\* to exist under another compression.
C13_UnsupportedCompressionRaisesFirst ==
    (last.op = "open" /\ last.requested \notin (Compressions \cup Falsy)) =>
        /\ last.raised /\ last.ret = Err("ValueError")
        /\ ~last.made /\ last.probed = <<>>
        /\ last.deleted = {} /\ last.written = {}
        /\ cs.phase # "open"

\* bz2 was requested while a cache file was there to be found.
C13_Witness ==
    /\ last.op = "open" /\ last.requested = "bz2" /\ last.raised
    /\ \E c \in Compressions : disk[c] # <<>>

\* A session in which no put filled an entry was closed.
UnpopulatedSessionClosed == last.op = "exit" /\ DOMAIN cs.puts = {}

\* C12 as stated: closing a session in which no entry was populated writes
\* nothing to disk, also when no cache file existed beforehand.
C12_UnpopulatedCloseWritesNothing ==
    UnpopulatedSessionClosed => last.written = {} /\ last.deleted = {}

\* The session ends with what it loaded: a file of this cache version, under
\* the requested compression, and no language registered besides its own.
ClosesAsLoaded(s) ==
    /\ FileValidate(s.loaded) /\ s.found = <<s.wanted>>
    /\ DOMAIN s.caches = DOMAIN s.loaded[1].caches

\* C12, amended: closing a session in which no entry was populated writes
\* nothing exactly when the session was opened on a file of the current
\* cache version under the requested compression and registered no language
\* that file lacks; otherwise (no file beforehand, a new language indexed,
\* another version or compression) it writes one file under the requested
\* compression, holding unchanged the entries loaded from a valid file and
\* an empty entry for every other registered language.
C12_UnpopulatedCloseWritesOnlyOnChange ==
    UnpopulatedSessionClosed =>
        IF ClosesAsLoaded(cs)
        THEN last.written = {} /\ last.deleted = {} /\ disk[cs.wanted] = cs.loaded
        ELSE /\ last.written = {cs.wanted} /\ OnlyFile(disk, cs.wanted)
             /\ DOMAIN disk[cs.wanted][1].caches = DOMAIN cs.caches
             /\ \A l \in DOMAIN cs.caches :
                   IF FileValidate(cs.loaded) /\ l \in DOMAIN cs.loaded[1].caches
                   THEN DataEq(disk[cs.wanted][1].caches[l], cs.loaded[1].caches[l])
                   ELSE disk[cs.wanted][1].caches[l] = <<>>

\* No cache file existed; the session indexed coq, the prover failed, and
\* closing wrote a file with an empty entry for coq.
C12_Witness ==
    /\ UnpopulatedSessionClosed /\ cs.found = <<>> /\ last.raised
    /\ last.written = {cs.wanted}
    /\ disk[cs.wanted][1].caches = [l \in {"coq"} |-> <<>>]

\* C20: starting with at most one cache file for the document, after every
\* FileCacheSet session closes exactly one of the files of the three
\* compressions exists.
C20_SingleFileAfterClose ==
    last.op = "exit" => \E c \in Compressions : OnlyFile(disk, c)

\* A session that found the xz file, requested gzip and filled an entry was
\* closed: the gzip file is the only one.
C20_Witness ==
    /\ last.op = "exit" /\ cs.found = <<"xz">> /\ cs.wanted = "gzip"
    /\ DOMAIN cs.puts # {} /\ OnlyFile(disk, "gzip")

\* C14: in a scope of the no-cache set, from its construction to its exit,
\* no step opens, unlinks or writes a file or makes a directory, and every
\* update made through an indexing of the set calls prover.annotate exactly
\* once, a repeated update with identical chunks and config included.
C14_NoCacheNeverTouchesDisk ==
    [][(cs.phase = "nocache" \/ cs'.phase = "nocache") =>
         /\ disk' = disk
         /\ ~last'.made /\ last'.probed = <<>>
         /\ last'.deleted = {} /\ last'.written = {}
         /\ last'.op = "dummy_update" => last'.calls = 1]_vars

\* An update repeated with the chunks and config of the one before it in
\* the same scope called the prover again, while a cache file was on disk.
C14_Witness ==
    /\ last.op = "dummy_update" /\ last.repeat /\ last.calls = 1 /\ ~last.raised
    /\ \E c \in Compressions : disk[c] # <<>>

\* The pair a populated entry stores as its generator.
StoredGenerator(data) ==
    IF data[1].generator = Absent THEN GENERATOR_DEFAULT ELSE data[1].generator

\* C18: reading generator on an entry never fails; it returns the stored
\* (name, version) pair once the entry is populated and the placeholder
\* pair ("Coq+SerAPI", "??") on an entry that was never populated, whether
\* indexing a new language created it or the no-cache set returned it.
C18_GeneratorNeverFails ==
    /\ last.op = "generator" =>
          /\ ~IsErr(last.ret)
          /\ IF cs.caches[last.lang] = <<>> THEN last.ret = GENERATOR_DEFAULT
             ELSE ContentEq(last.ret, StoredGenerator(cs.caches[last.lang]))
    /\ last.op = "dummy_generator" => last.ret = GENERATOR_DEFAULT

\* What the code does: on a populated entry the read returns the stored pair
\* (the placeholder when the stored data have no generator), and on an entry
\* that was never populated it raises AttributeError.
C18_GeneratorOfPopulatedEntry ==
    /\ last.op = "generator" =>
          IF cs.caches[last.lang] = <<>> THEN last.ret = Err("AttributeError")
          ELSE /\ ~IsErr(last.ret)
               /\ ContentEq(last.ret, StoredGenerator(cs.caches[last.lang]))
    /\ last.op = "dummy_generator" => last.ret = Err("AttributeError")

\* What an earlier, closed session stored last for lang.
Earlier(s, lang) == IF lang \in DOMAIN s.earlier THEN s.earlier[lang] ELSE <<>>

\* C22: when an earlier session made a successful update for a language
\* and closed, an update for that language in a later session, opened with
\* any requested compression, with chunks and config equal to those the
\* earlier sessions stored last, made before any put of the later session
\* on the entry, calls prover.annotate zero times and returns an annotation
\* equal to the stored one.
C22_CrossSessionHit ==
    [][(last'.op = "update" /\ last'.fresh
          /\ SamePair(Earlier(cs, last'.lang), last'.chunks, last'.config)) =>
         /\ last'.calls = 0 /\ ~last'.raised
         /\ StructEq(last'.ret, Earlier(cs, last'.lang)[1].annotated)]_vars

\* A session that requested another compression than that of the file it
\* found hit on lean3, whose entry an earlier session had stored.
C22_Witness ==
    /\ last.op = "update" /\ last.fresh /\ last.lang = "lean3" /\ last.calls = 0
    /\ SamePair(Earlier(cs, "lean3"), last.chunks, last.config)
    /\ cs.found # <<cs.wanted>> /\ cs.found # <<>>

\* C26: indexing a language that is registered changes nothing, and
\* indexing one that is not registers an empty entry for it and changes no
\* other; a put or an update on the entry of one language changes the entry
\* of no other language; and the file written at close holds, equal to what
\* was loaded, every entry loaded from a valid file for a language on which
\* the session made no put.
C26_PerLanguageIsolation ==
    [][/\ last'.op = "getitem" =>
            IF last'.lang \in DOMAIN cs.caches THEN cs'.caches = cs.caches
            ELSE /\ DOMAIN cs'.caches = DOMAIN cs.caches \cup {last'.lang}
                 /\ cs'.caches[last'.lang] = <<>>
                 /\ \A l \in DOMAIN cs.caches : cs'.caches[l] = cs.caches[l]
       /\ last'.op \in {"put", "update"} =>
            /\ DOMAIN cs'.caches = DOMAIN cs.caches
            /\ \A l \in DOMAIN cs.caches \ {last'.lang} : cs'.caches[l] = cs.caches[l]
       /\ (last'.op = "exit" /\ last'.written # {}) =>
            \A l \in DOMAIN LoadCaches(cs.loaded) \ DOMAIN cs.puts :
                /\ l \in DOMAIN disk'[cs.wanted][1].caches
                /\ DataEq(disk'[cs.wanted][1].caches[l], cs.loaded[1].caches[l])]_vars

\* A session opened on a valid file holding an entry for coq registered
\* lean3, populated it and closed: the file written holds both entries,
\* that of coq as it was loaded.
C26_Witness ==
    /\ last.op = "exit" /\ last.written = {cs.wanted}
    /\ FileValidate(cs.loaded) /\ DOMAIN cs.loaded[1].caches = {"coq"}
    /\ DOMAIN cs.puts = {"lean3"}
    /\ DOMAIN disk[cs.wanted][1].caches = {"coq", "lean3"}
    /\ DataEq(disk[cs.wanted][1].caches["coq"], cs.loaded[1].caches["coq"])

-----------------------------------------------------------------------------
(* SpecForms: put and get on one entry, the sequences of chunks and config  *)
(* given as tuples or as lists at every depth                               *)

FormChunkSeqs ==
    { List(<<Chunk("a")>>), Tuple(<<Chunk("a")>>), List(<<Chunk("b")>>),
      List(<<List(<<Chunk("a")>>)>>), List(<<Tuple(<<Chunk("a")>>)>>) }
FormConfigs ==
    { Config(List(<<>>)), Config(Tuple(<<>>)),
      Config(List(<<PyStr("-Q", 0), List(<<PyStr("d", 0)>>)>>)),
      Config(Tuple(<<PyStr("-Q", 0), Tuple(<<PyStr("d", 0)>>)>>)) }

PutForms ==
    \E ch \in FormChunkSeqs, cf \in FormConfigs :
        \E ann \in AnnotationsFor(ch) : Put("coq", ch, cf, ann, ProverVersion)
GetForms == \E ch \in FormChunkSeqs, cf \in FormConfigs : Get("coq", ch, cf)

NextForms == OpenEntrySession \/ IndexEntry \/ PutForms \/ GetForms

SpecForms == InitEntry /\ [][NextForms]_vars

\* C28: after a put, a get whose chunks and config have the content of
\* those put, whether their sequences are tuples or lists at any depth,
\* returns the annotation put.
C28_TupleAndListFormsHit ==
    (last.op = "get" /\ SamePair(Stored(cs, last.lang), last.chunks, last.config)) =>
        StructEq(last.ret, Stored(cs, last.lang)[1].annotated)

\* What holds of the code: get returns the annotation put exactly when the
\* config has the content of the config put and the chunks, every sequence
\* in them made a list, equal the list of the chunks put as they were
\* given; so chunks put with a tuple inside never hit in the session, and
\* chunks put with none hit in every form.
C28_HitWhenPutChunksHoldNoTuple ==
    (last.op = "get" /\ Stored(cs, last.lang) # <<>>) =>
        LET stored == Stored(cs, last.lang)[1]
        IN /\ StructEq(last.ret, stored.annotated) <=>
                /\ ContentEq(last.config, stored.config)
                /\ PyEq(Normalize(last.chunks), List(stored.chunks.c))
           /\ (\E i \in 1..Len(stored.chunks.c) : stored.chunks.c[i].k = "tuple") =>
                 last.ret = None
           /\ (/\ \A i \in 1..Len(stored.chunks.c) : stored.chunks.c[i].k # "tuple"
               /\ SamePair(<<stored>>, last.chunks, last.config)) =>
                 StructEq(last.ret, stored.annotated)

\* A get, or an update that called no prover, returned a value.
HitStep == \/ last'.op = "get" /\ last'.ret # None
           \/ last'.op = "update" /\ last'.calls = 0

\* A hit leaves the entries, the loaded snapshot and the files as they were.
HitHasNoEffect ==
    HitStep => /\ cs'.caches = cs.caches /\ cs'.js = cs.js /\ cs'.mutated = cs.mutated
               /\ disk' = disk

\* A session opened on a valid file under the compression it requests, whose
\* gets and updates all hit, is closed.
OnlyHitsSessionClosed ==
    /\ last.op = "exit" /\ cs.hits = "only"
    /\ cs.found = <<cs.wanted>> /\ FileValidate(cs.loaded)

OnlyHitsCloseWritesNothing ==
    OnlyHitsSessionClosed =>
        /\ last.deleted = {} /\ last.written = {}
        /\ OnlyFile(disk, cs.wanted) /\ disk[cs.wanted] = cs.loaded

\* C32: a get that hits, and an update that hits, leave the entry's stored
\* data and the loaded file snapshot unchanged; a session on a valid file
\* with unchanged compression whose gets and updates all hit on languages
\* of the file deletes and writes no file when it is closed.
C32_HitHasNoEffect == []OnlyHitsCloseWritesNothing /\ [][HitHasNoEffect]_vars

\* A session on an xz file hit with an update and was closed: the file is
\* as it was.
C32_Witness ==
    /\ OnlyHitsSessionClosed /\ cs.wanted = "xz" /\ ~cs.exn
    /\ disk["xz"] = cs.loaded /\ last.written = {}

-----------------------------------------------------------------------------
(* SpecRace: two processes open, update and close the cache of one document *)
(* at the same time; each file operation is one step                        *)

Pids == {1, 2}

\* A process holds a FileCacheSet (wanted, ondisk, js, caches) and is at
\* pc: "probe" in _read, about to try to open the file of compression
\* KNOWN_COMPRESSIONS[i]; "body" in the with statement; "unlink" in
\* _delete_old_caches, about to unlink the file of KNOWN_COMPRESSIONS[i];
\* "write" in _force_write, about to write its file; "closed".  order is 0,
\* or the rank of its write among the writes of all processes.
NewProcess(wanted, chunks) ==
    [pc |-> "probe", i |-> 1, wanted |-> wanted, ondisk |-> <<>>, js |-> <<>>,
     caches |-> <<>>, puts |-> <<>>, chunks |-> chunks, order |-> 0]

\* The cache directory at the start: no file, or one valid file.
RaceDisks ==
    {[c \in Compressions |-> <<>>]} \cup {[c \in Compressions |->
                        IF c = at THEN <<[metadata |-> METADATA,
                                          caches |-> [l \in {"coq"} |-> OldData]]>>
                        ELSE <<>>] : at \in Compressions}

InitRace ==
    /\ InitSerIdle /\ InitCache /\ args = NoArgs /\ run = NoRun /\ cachedir = <<>>
    /\ disk \in RaceDisks
    /\ procs \in [Pids -> {NewProcess(w, ch) : w \in Compressions, ch \in FileChunkSeqs}]

\* One turn of the loop of _read: the file exists and is loaded, which ends
\* __init__, or it does not and the next compression is tried.
Probe(p) ==
    /\ procs[p].pc = "probe"
    /\ LET c == KNOWN_COMPRESSIONS[procs[p].i]
       IN procs' = [procs EXCEPT ![p] =
              IF disk[c] # <<>>
              THEN [@ EXCEPT !.pc = "body", !.ondisk = <<c>>, !.js = disk[c],
                             !.caches = LoadCaches(disk[c])]
              ELSE IF procs[p].i < Len(KNOWN_COMPRESSIONS) THEN [@ EXCEPT !.i = @ + 1]
              ELSE [@ EXCEPT !.pc = "body"]]
    /\ UNCHANGED <<disk, cs, last, args, run, cachedir, serVars>>

\* The body, caches["coq"].update(chunks, prover, config), then __exit__ up
\* to the test of _write: no file is touched.
UpdateAndLeave(p) ==
    /\ procs[p].pc = "body"
    /\ LET s == procs[p]
           data == IF "coq" \in DOMAIN s.caches THEN s.caches["coq"] ELSE <<>>
           r == CacheUpdate(data, s.chunks, PROVER_CONFIG.coq, "ok", FileAnnotation(s.chunks),
                            ProverVersion)
           t == [s EXCEPT !.caches = [l \in DOMAIN s.caches \cup {"coq"} |->
                                         IF l = "coq" THEN r.data ELSE s.caches[l]],
                          !.puts = IF r.calls = 1 THEN [l \in {"coq"} |-> <<r.data>>]
                                   ELSE <<>>]
       IN procs' = [procs EXCEPT ![p] =
              IF ExitWrites(t) THEN [t EXCEPT !.pc = "unlink", !.i = 1]
              ELSE [t EXCEPT !.pc = "closed"]]
    /\ UNCHANGED <<disk, cs, last, args, run, cachedir, serVars>>

UnlinkKeeps(d, c) == d

\* unlink of the file of compression c; FileNotFoundError is ignored.
UnlinkFile(d, c) == [d EXCEPT ![c] = <<>>]

\* One turn of the loop of _delete_old_caches.
Unlink(p) ==
    /\ procs[p].pc = "unlink"
    /\ disk' = UnlinkFile(disk, KNOWN_COMPRESSIONS[procs[p].i])
    /\ procs' = [procs EXCEPT ![p] =
           IF procs[p].i < Len(KNOWN_COMPRESSIONS) THEN [@ EXCEPT !.i = @ + 1]
           ELSE [@ EXCEPT !.pc = "write"]]
    /\ UNCHANGED <<cs, last, args, run, cachedir, serVars>>

\* The rest of _force_write: the file of the wanted compression is created
\* or replaced, and holds the snapshot.
WriteFile(d, s) == [d EXCEPT ![s.wanted] = <<JsonFile(Snapshot(s.caches))>>]

Write(p) ==
    /\ procs[p].pc = "write"
    /\ disk' = WriteFile(disk, procs[p])
    /\ procs' = [procs EXCEPT ![p] =
           [@ EXCEPT !.pc = "closed", !.js = <<Snapshot(procs[p].caches)>>,
                     !.ondisk = <<procs[p].wanted>>,
                     !.order = 1 + Cardinality({q \in Pids : procs[q].order > 0})]]
    /\ UNCHANGED <<cs, last, args, run, cachedir, serVars>>

ProbeStep == \E p \in Pids : Probe(p)
BodyStep == \E p \in Pids : UpdateAndLeave(p)
UnlinkStep == \E p \in Pids : Unlink(p)
WriteStep == \E p \in Pids : Write(p)

NextRace == ProbeStep \/ BodyStep \/ UnlinkStep \/ WriteStep

SpecRace == InitRace /\ [][NextRace]_vars

\* Both processes have closed and at least one wrote; the writers, and the
\* one that wrote last.
RaceOver == DOMAIN procs = Pids /\ \A p \in Pids : procs[p].pc = "closed"
Writers == {p \in DOMAIN procs : procs[p].order > 0}
LastWriter == CHOOSE p \in Writers : \A q \in Writers : procs[q].order <= procs[p].order
HoldsSnapshotOf(c, p) == JsEq(disk[c], <<JsonFile(Snapshot(procs[p].caches))>>)

\* C23: when the two processes have closed, under every interleaving of
\* their file operations and whatever compressions they requested, there
\* is exactly one cache file, and it holds the snapshot of the process that
\* wrote last.
C23_LastWriterLeavesOneFile ==
    (RaceOver /\ Writers # {}) =>
        /\ OnlyFile(disk, procs[LastWriter].wanted)
        /\ HoldsSnapshotOf(procs[LastWriter].wanted, LastWriter)

\* C23, amended: when the two processes have closed, the file of the
\* compression requested by the process that wrote last holds the snapshot
\* of that process, and every cache file holds the snapshot of a process
\* that wrote under its compression; that file is the only one when both
\* processes requested the same compression or only one of them wrote, and
\* otherwise the file of the other process may remain beside it.
C23_LastWriterFileHoldsItsSnapshot ==
    (RaceOver /\ Writers # {}) =>
        /\ HoldsSnapshotOf(procs[LastWriter].wanted, LastWriter)
        /\ \A c \in Compressions :
              disk[c] # <<>> =>
                  \E p \in Writers : procs[p].wanted = c /\ HoldsSnapshotOf(c, p)
        /\ (\A p, q \in Writers : procs[p].wanted = procs[q].wanted) =>
              OnlyFile(disk, procs[LastWriter].wanted)

\* The two processes requested gzip and xz and stored different chunks;
\* each unlinked the files before the other wrote, and both files remain,
\* each with the snapshot of the process that wrote it.
C23_Witness ==
    /\ RaceOver /\ Writers = Pids
    /\ procs[1].wanted = "gzip" /\ procs[2].wanted = "xz"
    /\ procs[1].chunks # procs[2].chunks
    /\ disk["gzip"] # <<>> /\ disk["xz"] # <<>>
    /\ HoldsSnapshotOf("gzip", 1) /\ HoldsSnapshotOf("xz", 2)

-----------------------------------------------------------------------------
(* The values handed to the serializers *)

\* Nodes of the values enumerated in full, and of the parts that are repeated.
MaxNodes == 3
PartNodes == 2

\* "" is one object in CPython; "a" stands for a longer text, of which two
\* equal string objects exist.
StrObjs == {PyStr("", 0), PyStr("a", 1), PyStr("a", 2)}
Atoms == {PyInt(0), None} \cup StrObjs
UserKeys == {"j", "k"}

KeySeqs(len) == {ks \in [1..len -> UserKeys] : \A i, j \in 1..len : ks[i] = ks[j] => i = j}

RECURSIVE ValsOfSize(_)
RECURSIVE SeqsOfSize(_, _)
\* The sequences of len values that have n nodes together.
SeqsOfSize(n, len) ==
    IF len = 0 THEN (IF n = 0 THEN {<<>>} ELSE {})
    ELSE UNION {{<<x>> \o xs : x \in ValsOfSize(m), xs \in SeqsOfSize(n - m, len - 1)} :
                m \in 1..n}
ValsOfSize(n) ==
    IF n = 1 THEN Atoms \cup {List(<<>>), Dict(<<>>)}
    ELSE UNION {{List(xs) : xs \in SeqsOfSize(n - 1, len)} : len \in 1..(n - 1)}
         \cup UNION {{Dict([i \in 1..len |-> Pair(ks[i], xs[i])]) :
                        ks \in KeySeqs(len), xs \in SeqsOfSize(n - 1, len)} :
                     len \in 1..Cardinality(UserKeys)}
         \cup UNION {{Ent(cls, xs, 0) : xs \in SeqsOfSize(n - 1, Len(FIELDS[cls]))} :
                     cls \in Classes}
ValsUpTo(n) == UNION {ValsOfSize(m) : m \in 1..n}

\* The entities whose fields are primitives.
PrimEnts == UNION {{Ent(cls, xs, 0) : xs \in [1..Len(FIELDS[cls]) -> Atoms]} : cls \in Classes}

\* The values equal to v: the same content, built from other string objects.
RECURSIVE Twins(_)
RECURSIVE TwinSeqs(_)
Twins(v) ==
    IF v.k = "str" THEN {o \in StrObjs : o.s = v.s}
    ELSE {[v EXCEPT !.c = xs] : xs \in TwinSeqs(v.c)}
TwinSeqs(xs) ==
    IF xs = <<>> THEN {<<>>}
    ELSE {<<x>> \o ys : x \in Twins(Head(xs)), ys \in TwinSeqs(Tail(xs))}

\* Values in which x and an equal value y both occur, at several depths.
Shapes(x, y) ==
    { List(<<x, y>>),
      List(<<x, List(<<y>>)>>),
      Dict(<<Pair("k", x), Pair("j", y)>>),
      List(<<Ent("Message", <<x>>, 0), y>>) }

Parts == ValsUpTo(PartNodes) \cup PrimEnts
Repeats == UNION {UNION {Shapes(x, y) : y \in Twins(x)} : x \in Parts}
Inputs == ValsUpTo(MaxNodes) \cup Repeats

-----------------------------------------------------------------------------
(* Serializer runs: encode a value, then decode the wire tree *)

InitSer ==
    /\ sv \in Inputs
    /\ ser = "none" /\ wire = <<>> /\ dec = <<>> /\ copy = FALSE
    /\ InitCliIdle /\ InitCache /\ disk = [c \in Compressions |-> <<>>]

EncodePlain ==
    /\ ser = "none"
    /\ ser' = "plain" /\ wire' = <<PlainEncode(sv)>>
    /\ UNCHANGED <<sv, dec, copy, cacheVars, cliVars>>

EncodeDedup ==
    /\ ser = "none"
    /\ ser' = "dedup" /\ wire' = <<DedupEncode(sv)>>
    /\ UNCHANGED <<sv, dec, copy, cacheVars, cliVars>>

EncodeFull ==
    /\ ser = "none"
    /\ ser' = "full" /\ wire' = <<FullEncode(sv)>>
    /\ UNCHANGED <<sv, dec, copy, cacheVars, cliVars>>

Encoded(name) == ser = name /\ wire # <<>> /\ ~IsErr(wire[1]) /\ dec = <<>>

DecodePlain ==
    /\ Encoded("plain")
    /\ dec' = <<PlainDecode(wire[1])>>
    /\ UNCHANGED <<sv, ser, wire, copy, cacheVars, cliVars>>

DecodeDedup ==
    /\ Encoded("dedup")
    /\ \E cp \in BOOLEAN : dec' = <<DedupDecode(wire[1], cp)>> /\ copy' = cp
    /\ UNCHANGED <<sv, ser, wire, cacheVars, cliVars>>

DecodeFull ==
    /\ Encoded("full")
    /\ \E cp \in BOOLEAN : dec' = <<FullDecode(wire[1], cp)>> /\ copy' = cp
    /\ UNCHANGED <<sv, ser, wire, cacheVars, cliVars>>

NextSer ==
    \/ EncodePlain \/ EncodeDedup \/ EncodeFull
    \/ DecodePlain \/ DecodeDedup \/ DecodeFull

SpecSer == InitSer /\ [][NextSer]_vars

-----------------------------------------------------------------------------
(* Properties of the serializers, checked under SpecSer *)

\* C3: PlainSerializer encodes every value of the domain to a wire tree of
\* primitives, lists and mappings only, and decode(encode(v)) is
\* structurally equal to v.
C3_PlainRoundTrip ==
    ser = "plain" =>
        /\ wire # <<>> => IsWire(wire[1])
        /\ dec # <<>> => StructEq(dec[1], sv)

\* An entity nested in an entity nested in a list has made the round trip.
C3_Witness ==
    /\ ser = "plain" /\ dec # <<>>
    /\ sv.k = "list" /\ Len(sv.c) = 2
    /\ sv.c[1].k = "ent" /\ sv.c[1].c[1].k = "ent"
    /\ sv.c[1].c[1].s = "Hypothesis"

\* C4: DeduplicatingSerializer: decode(encode(v), copy) is structurally
\* equal to v, for copy = False and for copy = True.
C4_DedupRoundTrip ==
    ser = "dedup" =>
        /\ wire # <<>> => IsWire(wire[1])
        /\ dec # <<>> => StructEq(dec[1], sv)

\* A repeated entity, nested one list deeper the second time, was emitted as
\* a back-reference and decoded in copy mode.
C4_Witness ==
    /\ ser = "dedup" /\ dec # <<>> /\ copy
    /\ sv.k = "list" /\ Len(sv.c) = 2 /\ sv.c[1].k = "ent" /\ sv.c[2].k = "list"
    /\ wire[1].c[2] = List(<<Pointer(0)>>)

\* C5: FullyDeduplicatingSerializer: decode(encode(v), copy) is structurally
\* equal to v for both copy modes, also when primitives, lists and mappings
\* repeat and are emitted as back-references.
C5_FullRoundTrip ==
    ser = "full" =>
        /\ wire # <<>> => IsWire(wire[1])
        /\ dec # <<>> => StructEq(dec[1], sv)

\* The empty string (a falsy primitive, registered at index 0) was repeated,
\* emitted as a back-reference and decoded.
C5_Witness ==
    /\ ser = "full" /\ dec # <<>>
    /\ sv = List(<<PyStr("", 0), List(<<PyStr("", 0)>>)>>)
    /\ wire[1] = List(<<PyStr("", 0), List(<<Pointer(0)>>)>>)

\* pickle.loads of a key of the encoders' obj_table: the value that was
\* registered, each memo reference replaced by the string it stands for.
RECURSIVE Unpickle(_, _)
RECURSIVE UnpickleSeq(_, _, _)
Unpickle(p, memo) ==
    IF p.k = "memo" THEN [v |-> PyStr(memo[p.n], 0), m |-> memo]
    ELSE IF p.k = "str" THEN [v |-> p, m |-> Append(memo, p.s)]
    ELSE LET r == UnpickleSeq(p.c, memo, <<>>)
         IN [v |-> [p EXCEPT !.c = r.v], m |-> r.m]
UnpickleSeq(xs, memo, acc) ==
    IF xs = <<>> THEN [v |-> acc, m |-> memo]
    ELSE LET r == Unpickle(Head(xs), memo)
         IN UnpickleSeq(Tail(xs), r.m, Append(acc, r.v))
PickleLoads(key) == Unpickle(key, <<>>).v

\* The tables of an encoding e and of the decoding d of its wire tree: the
\* decoder met no back-reference to an index its table did not have yet
\* (it raises IndexError there), the encoder gave out the indices 0, 1, ...
\* in order, and the decoder's table holds, at each index, a value equal to
\* the one the encoder registered at that index.
Lockstep(e, d) ==
    /\ ~IsErr(d.v)
    /\ Len(d.st.tbl) = Len(e.t)
    /\ \A i \in 1..Len(e.t) :
          /\ e.t[i].ref = i - 1
          /\ StructEq(d.st.tbl[i], PickleLoads(e.t[i].key))

\* C27: for every value that one of the two deduplicating serializers
\* encodes, decoding the wire tree, with or without copy, meets only
\* back-references to indices that the decode table already has, and the
\* decode table holds at every index a value equal to the one the encoder
\* registered at that index.
C27_TablesInLockstep ==
    (wire # <<>> /\ ~IsErr(wire[1])) =>
        /\ ser = "dedup" =>
              \A cp \in BOOLEAN :
                  Lockstep(DedupEnc(sv, <<>>), DedupDec(wire[1], EmptyDecodeState, cp))
        /\ ser = "full" =>
              \A cp \in BOOLEAN :
                  Lockstep(FullEnc(sv, <<>>), FullDec(wire[1], EmptyDecodeState, cp))

\* A list [x, [y]] with x and y equal one-element lists was encoded by the
\* full serializer and decoded: y is a back-reference to index 1, met when
\* the decode table had two entries, and the table ends with four.
C27_Witness ==
    /\ ser = "full" /\ dec # <<>> /\ ~IsErr(dec[1])
    /\ wire[1].k = "list" /\ Len(wire[1].c) = 2 /\ wire[1].c[2] = List(<<Pointer(1)>>)
    /\ Len(FullDec(wire[1], EmptyDecodeState, copy).st.tbl) = 4

\* A list of two entities that have primitive fields and are equal field by field.
TwoEqualEnts ==
    /\ sv.k = "list" /\ Len(sv.c) = 2
    /\ sv.c[1] \in PrimEnts /\ sv.c[2] \in PrimEnts
    /\ StructEq(sv.c[1], sv.c[2])

\* C6: DeduplicatingSerializer encodes a list of two field-equal entities with
\* primitive fields as one "&" node followed by one "*" node that holds the
\* index of the first; decoding without copy gives one instance at both
\* positions, decoding with copy gives two distinct, equal instances.
C6_EqualEntitiesCollapse ==
    (ser = "dedup" /\ TwoEqualEnts) =>
        /\ wire # <<>> =>
              /\ wire[1].k = "list" /\ Len(wire[1].c) = 2
              /\ HasKey(wire[1].c[1], "&")
              /\ wire[1].c[2] = Pointer(0)
        /\ dec # <<>> =>
              /\ StructEq(dec[1].c[1], dec[1].c[2])
              /\ (dec[1].c[1].n = dec[1].c[2].n) <=> ~copy

\* The same, for two entities whose equal strings are shared alike.
C6_SameSharingCollapse ==
    (ser = "dedup" /\ TwoEqualEnts /\ PickleDumps(sv.c[1]) = PickleDumps(sv.c[2])) =>
        /\ wire # <<>> => wire[1].c[2] = Pointer(0) /\ HasKey(wire[1].c[1], "&")
        /\ dec # <<>> =>
              /\ StructEq(dec[1].c[1], dec[1].c[2])
              /\ (dec[1].c[1].n = dec[1].c[2].n) <=> ~copy

-----------------------------------------------------------------------------
(* The command line: resolving a pipeline for each input document *)

\* A path is the sequence of its dot-separated parts: the stem, then each
\* extension with its dot, so that "a.v.json" is <<"a", ".v", ".json">>.
\* An extension of the tables is the sequence of its parts; it starts with a
\* dot, so str.endswith holds exactly when the last parts of the path are
\* the parts of the extension.
ContainsExt(fpath, ext) ==
    \E i \in 2..(Len(fpath) - Len(ext) + 1) : SubSeq(fpath, i, i + Len(ext) - 1) = ext

EndsWith(fpath, ext) ==
    /\ Len(ext) < Len(fpath)
    /\ SubSeq(fpath, Len(fpath) - Len(ext) + 1, Len(fpath)) = ext

Ext(ext, mode) == [ext |-> ext, mode |-> mode]

FRONTENDS_BY_EXTENSION ==
    << Ext(<<".v">>, "coq+rst"), Ext(<<".lean">>, "lean3"), Ext(<<".lean3">>, "lean3"),
       Ext(<<".v", ".json">>, "coq.json"), Ext(<<".lean3", ".json">>, "lean3.json"),
       Ext(<<".rst">>, "rst"), Ext(<<".md">>, "md") >>

BACKENDS_BY_EXTENSION ==
    << Ext(<<".v">>, "coq"), Ext(<<".lean">>, "lean3"),
       Ext(<<".json">>, "json"), Ext(<<".rst">>, "rst"),
       Ext(<<".lint", ".json">>, "lint"),
       Ext(<<".snippets", ".html">>, "snippets-html"),
       Ext(<<".snippets", ".tex">>, "snippets-latex"),
       Ext(<<".v", ".html">>, "webpage"), Ext(<<".html">>, "webpage"),
       Ext(<<".v", ".tex">>, "latex"), Ext(<<".tex">>, "latex") >>

DefaultBackendFrontends ==
    {"coq.json", "lean3.json", "coq", "coqdoc", "coq+rst", "lean3", "rst", "md"}
DefaultBackendsAllJson == [f \in DefaultBackendFrontends |-> "json"]

DEFAULT_BACKENDS ==
    [f \in DefaultBackendFrontends |->
        IF f \in {"coq.json", "lean3.json"} THEN "json" ELSE "webpage"]

\* "None" stands for Python's None.
INPUT_LANGUAGE_BY_FRONTEND ==
    [f \in {"coq", "coqdoc", "coq+rst", "rst", "md", "lean3", "coq.json", "lean3.json"} |->
        CASE f \in {"coq", "coqdoc", "coq+rst", "coq.json"} -> "coq"
          [] f \in {"lean3", "lean3.json"} -> "lean3"
          [] OTHER -> "None"]

\* The step lists, by the names of the step functions; write_file(...) is
\* named write_file whatever its extension.
Pl(backend, steps) == [backend |-> backend, steps |-> steps]

JsonSteps(read) == <<read, "annotate_chunks", "encode_json", "dump_json", "write_file">>
JsonSnippets(gen, dump) ==
    <<"read_json", "annotate_chunks", "apply_transforms", gen, dump, "write_file">>
PlainSnippets(gen, dump) ==
    <<"read_plain", "parse_plain", "annotate_chunks", "apply_transforms", gen, dump,
      "write_file">>
PlainWebpage ==
    <<"read_plain", "parse_plain", "annotate_chunks", "apply_transforms",
      "gen_html_snippets", "dump_html_standalone", "copy_assets", "write_file">>
PlainJson ==
    <<"read_plain", "parse_plain", "annotate_chunks", "encode_json", "dump_json",
      "write_file">>
Docutils == <<"read_plain", "register_docutils", "gen_docutils", "copy_assets", "write_file">>
Lint == <<"read_plain", "register_docutils", "lint_docutils", "write_file">>
ToRstDecodes == <<"read_plain", "rst_to_code", "write_file">>
ToRst == <<"read_plain", "code_to_rst", "write_file">>
ToCode == <<"read_plain", "rst_to_code", "write_file">>

\* PIPELINES: for each frontend its backends, in the order of the dict.
Frontends == {"coq.json", "lean3.json", "coq", "lean3", "coq+rst", "coqdoc", "rst", "md"}
PIPELINES ==
    [f \in Frontends |->
        CASE f \in {"coq.json", "lean3.json"} ->
               << Pl("json", JsonSteps("read_json")),
                  Pl("snippets-html", JsonSnippets("gen_html_snippets", "dump_html_snippets")),
                  Pl("snippets-latex", JsonSnippets("gen_latex_snippets", "dump_latex_snippets")) >>
          [] f = "coq" ->
               << Pl("null", <<"read_plain", "parse_plain", "annotate_chunks">>),
                  Pl("webpage", PlainWebpage),
                  Pl("snippets-html", PlainSnippets("gen_html_snippets", "dump_html_snippets")),
                  Pl("snippets-latex", PlainSnippets("gen_latex_snippets", "dump_latex_snippets")),
                  Pl("lint", Lint), Pl("rst", ToRst), Pl("json", PlainJson) >>
          [] f = "lean3" ->
               << Pl("null", <<"read_plain", "parse_plain", "annotate_chunks">>),
                  Pl("webpage", PlainWebpage),
                  Pl("snippets-html", PlainSnippets("gen_html_snippets", "dump_html_snippets")),
                  Pl("snippets-latex", PlainSnippets("gen_latex_snippets", "dump_latex_snippets")),
                  Pl("json", PlainJson) >>
          [] f = "coq+rst" ->
               << Pl("webpage", Docutils), Pl("latex", Docutils), Pl("lint", Lint),
                  Pl("rst", ToRst) >>
          [] f = "coqdoc" ->
               << Pl("webpage",
                     <<"read_plain", "parse_plain", "annotate_chunks",
                       "gen_html_snippets_with_coqdoc", "dump_html_standalone",
                       "copy_assets", "write_file">>) >>
          [] f = "rst" ->
               << Pl("webpage", Docutils), Pl("latex", Docutils), Pl("lint", Lint),
                  Pl("coq", ToCode), Pl("coq+rst", ToCode) >>
          [] f = "md" ->
               << Pl("webpage", Docutils), Pl("latex", Docutils), Pl("lint", Lint) >>]

\* The keys of PIPELINES[frontend], in order, and the steps under one key.
BackendsOf(supported) == [i \in 1..Len(supported) |-> supported[i].backend]
SupportsBackend(supported, backend) ==
    \E i \in 1..Len(supported) : supported[i].backend = backend
StepsOf(supported, backend) ==
    supported[CHOOSE i \in 1..Len(supported) : supported[i].backend = backend].steps

\* What a function of the resolver gives: a value, or the error it raises.
Ok(val) == [ok |-> TRUE, val |-> val, err |-> <<>>]
Raise(err) == [ok |-> FALSE, val |-> "", err |-> <<err>>]
ArgumentTypeError(argument, frontend, backend, supported) ==
    [kind |-> "ArgumentTypeError", argument |-> argument, frontend |-> frontend,
     backend |-> backend, supported |-> supported]

\* infer_mode: the mode of the first entry of the table that fpath ends with.
InferMode(fpath, arg, table) ==
    LET hits == {i \in 1..Len(table) : EndsWith(fpath, table[i].ext)}
    IN IF hits = {} THEN Raise(ArgumentTypeError(arg, "", "", <<>>))
       ELSE Ok(table[CHOOSE i \in hits : \A j \in hits : i <= j].mode)

InferFrontend(fpath) == InferMode(fpath, "--frontend", FRONTENDS_BY_EXTENSION)

\* infer_backend; an output path of <<>> is None.
InferBackend(frontend, out_fpath) ==
    IF out_fpath # <<>> THEN InferMode(out_fpath, "--backend", BACKENDS_BY_EXTENSION)
    ELSE IF frontend \in DOMAIN DEFAULT_BACKENDS THEN Ok(DEFAULT_BACKENDS[frontend])
    ELSE Raise([kind |-> "KeyError", argument |-> "", frontend |-> frontend,
                backend |-> "", supported |-> <<>>])

ResolveUnchecked(fpath, a) ==
    LET fe == IF a.frontend # "" THEN Ok(a.frontend) ELSE InferFrontend(fpath)
    IN IF ~fe.ok THEN [ok |-> FALSE, err |-> fe.err, frontend |-> "", backend |-> "",
                       steps |-> <<>>]
       ELSE LET be == IF a.backend # "" THEN Ok(a.backend)
                      ELSE InferBackend(fe.val, a.output)
            IN IF ~be.ok
               THEN [ok |-> FALSE, err |-> be.err, frontend |-> "", backend |-> "",
                     steps |-> <<>>]
               ELSE [ok |-> TRUE, err |-> <<>>, frontend |-> fe.val, backend |-> be.val,
                     steps |-> IF SupportsBackend(PIPELINES[fe.val], be.val)
                               THEN StepsOf(PIPELINES[fe.val], be.val) ELSE <<>>]

\* resolve_pipeline: (frontend, backend, steps), or the error raised.
\* args.frontend and args.backend are "" when not given.
ResolvePipeline(fpath, a) ==
    LET fe == IF a.frontend # "" THEN Ok(a.frontend) ELSE InferFrontend(fpath)
    IN IF ~fe.ok THEN [ok |-> FALSE, err |-> fe.err, frontend |-> "", backend |-> "",
                       steps |-> <<>>]
       ELSE IF fe.val \notin DOMAIN PIPELINES
       THEN [ok |-> FALSE,
             err |-> <<[kind |-> "AssertionError", argument |-> "", frontend |-> fe.val,
                        backend |-> "", supported |-> <<>>]>>,
             frontend |-> "", backend |-> "", steps |-> <<>>]
       ELSE LET supported == PIPELINES[fe.val]
                be == IF a.backend # "" THEN Ok(a.backend)
                      ELSE InferBackend(fe.val, a.output)
            IN IF ~be.ok
               THEN [ok |-> FALSE, err |-> be.err, frontend |-> "", backend |-> "",
                     steps |-> <<>>]
               ELSE IF ~SupportsBackend(supported, be.val)
               THEN [ok |-> FALSE,
                     err |-> <<ArgumentTypeError("--backend", fe.val, be.val,
                                                 BackendsOf(supported))>>,
                     frontend |-> "", backend |-> "", steps |-> <<>>]
               ELSE [ok |-> TRUE, err |-> <<>>, frontend |-> fe.val, backend |-> be.val,
                     steps |-> StepsOf(supported, be.val)]

-----------------------------------------------------------------------------
(* The command line: post_process_arguments and process_pipelines *)

\* The state handed from step to step.  What a step computes is not
\* modelled: a value is the document it was read from and the steps that
\* made it, in order; StateNone is None.
StateNone == [none |-> TRUE, doc |-> <<>>, hist |-> <<>>]

\* The assets of html.py and of the docutils translators, as names.
ALECTRYON_CSS == <<"alectryon.css">>
ALECTRYON_JS == <<"alectryon.js">>
TranslatorAssets(backend) ==
    IF backend = "latex" THEN <<"alectryon.sty">>
    ELSE ALECTRYON_CSS \o ALECTRYON_JS \o <<"pygments.css">>

\* The chunks of a document, as read_plain and parse_plain or read_json
\* give them: a list of strings, here one string naming the document.
ChunksOf(fpath) == List(<<Chunk(fpath[1])>>)

\* A cache directory with no file for the document.
NoFiles == [c \in Compressions |-> <<>>]

AnnotateChunksLeavesOpen(d, chunks, lang, config, cache_directory, cache_compression, outcome) ==
    LET r == CacheUpdate(<<>>, chunks, config, outcome, FileAnnotation(chunks), ProverVersion)
    IN [disk |-> d, calls |-> r.calls, raised |-> r.raised]

\* annotate_chunks: the with statement on CacheSet(cache_directory, fpath,
\* cache_compression) around caches[input_language].update(chunks, prover,
\* config), from __init__ to __exit__.  d is the files of the document's
\* cache; the result is these files afterwards, the number of calls of
\* prover.annotate and whether the step raised.
AnnotateChunks(d, chunks, lang, config, cache_directory, cache_compression, outcome) ==
    IF cache_directory = "None"
    THEN LET r == CacheUpdate(DummyGetItem(NoCacheSet, lang), chunks, config, outcome,
                              FileAnnotation(chunks), ProverVersion)
         IN [disk |-> d, calls |-> r.calls, raised |-> r.raised]
    ELSE IF WantedCompression(cache_compression) \notin Compressions
    THEN [disk |-> d, calls |-> 0, raised |-> TRUE]
    ELSE LET opened == [NoCacheSet EXCEPT !.phase = "open",
                                          !.wanted = WantedCompression(cache_compression),
                                          !.ondisk = ReadCompression(d), !.js = ReadJs(d),
                                          !.caches = LoadCaches(ReadJs(d)),
                                          !.found = ReadCompression(d), !.loaded = ReadJs(d)]
             data == IF lang \in DOMAIN opened.caches THEN opened.caches[lang] ELSE <<>>
             r == CacheUpdate(data, chunks, config, outcome, FileAnnotation(chunks),
                              ProverVersion)
             closing == [opened EXCEPT !.caches = [l \in DOMAIN opened.caches \cup {lang} |->
                                                     IF l = lang THEN r.data
                                                     ELSE opened.caches[l]],
                                       !.mutated = TRUE, !.exn = r.raised]
         IN [disk |-> IF ExitWrites(closing) THEN ForceWrite(d, closing) ELSE d,
             calls |-> r.calls, raised |-> r.raised]

\* What step returns for state, in the context of a document.
StepReturn(step, state, fpath) ==
    IF step = "write_file" THEN StateNone
    ELSE IF step = "copy_assets" THEN state
    ELSE [none |-> FALSE, doc |-> fpath, hist |-> Append(state.hist, step)]

\* The lists args.assets and args.html_classes after step: the context of
\* every document holds these two list objects themselves.
StepAssets(step, assets, backend) ==
    IF step = "gen_docutils" THEN assets \o TranslatorAssets(backend)
    ELSE IF step = "dump_html_standalone" THEN assets \o ALECTRYON_CSS \o ALECTRYON_JS
    ELSE assets
StepClasses(step, html_classes, html_minification) ==
    IF step = "gen_html_snippets_with_coqdoc" THEN Append(html_classes, "coqdoc")
    ELSE IF step = "dump_html_standalone" /\ html_minification
    THEN Append(html_classes, "minified")
    ELSE html_classes

\* args.pipelines: the documents resolved in the order of args.input, or
\* the error of the first one that does not resolve.
RECURSIVE ResolveAll(_, _, _)
ResolveAll(input, a, acc) ==
    IF input = <<>> THEN [ok |-> TRUE, err |-> <<>>, pipelines |-> acc]
    ELSE LET r == ResolvePipeline(Head(input), a)
         IN IF ~r.ok THEN [ok |-> FALSE, err |-> r.err, pipelines |-> <<>>]
            ELSE ResolveAll(Tail(input), a,
                            Append(acc, [fpath |-> Head(input), frontend |-> r.frontend,
                                         backend |-> r.backend, steps |-> r.steps]))

ParserError(argument) ==
    [kind |-> "parser.error", argument |-> argument, frontend |-> "", backend |-> "",
     supported |-> <<>>]

\* post_process_arguments
PostProcessArguments ==
    /\ run.pc = "parsed"
    /\ IF Len(args.input) > 1 /\ args.output # <<>>
       THEN /\ run' = [run EXCEPT !.pc = "error", !.err = <<ParserError("--output")>>]
            /\ args' = args
       ELSE \E r \in {ResolveAll(args.input, args, <<>>)} :
               /\ args' = [args EXCEPT !.assets = <<>>, !.html_classes = <<>>,
                                       !.pipelines = r.pipelines]
               /\ run' = [run EXCEPT !.pc = IF r.ok THEN "resolved" ELSE "error",
                                     !.err = r.err]
    /\ UNCHANGED <<cachedir, procs, serVars, cacheVars>>

\* The attributes of the namespace that build_parser declares, and those it
\* has when post_process_arguments returns.
ParserDests ==
    {"input", "stdin_filename", "frontend", "backend", "output", "output_directory",
     "copy_fn", "mark_point", "include_banner", "include_vernums", "cache_directory",
     "cache_compression", "webpage_style", "html_minification", "html_dialect",
     "latex_dialect", "sertop_args", "coq_args_I", "coq_args_Q", "coq_args_R",
     "long_line_threshold", "expect_unexpected", "debug", "traceback"}

ArgsAttributesAsParsed == ParserDests

ArgsAttributes ==
    (ParserDests \ {"sertop_args"})
        \cup {"point", "marker", "prover_config", "assets", "html_classes", "pipelines"}

\* The keys of the dict that build_context returns.
ContextKeys ==
    {"args"} \cup ArgsAttributes
        \cup {"fpath", "fname", "frontend", "backend", "input_language", "output_directory"}

\* inspect.signature(step).parameters.keys(), as a list.
Signature(step) ==
    CASE step \in {"read_plain", "read_json"} -> <<"_", "fpath", "fname">>
      [] step = "parse_plain" -> <<"contents">>
      [] step = "code_to_rst" -> <<"code", "fpath", "point", "marker", "input_language">>
      [] step = "rst_to_code" -> <<"rst", "fpath", "point", "marker", "backend">>
      [] step = "annotate_chunks" ->
            <<"chunks", "fpath", "input_language", "prover_config", "cache_directory",
              "cache_compression">>
      [] step = "register_docutils" -> <<"v", "args">>
      [] step = "gen_docutils" ->
            <<"src", "frontend", "backend", "fpath", "html_dialect", "latex_dialect",
              "webpage_style", "include_banner", "include_vernums", "assets">>
      [] step = "lint_docutils" -> <<"source", "fpath", "frontend">>
      [] step \in {"apply_transforms", "gen_latex_snippets"} ->
            <<"annotated", "input_language">>
      [] step = "gen_html_snippets" ->
            <<"annotated", "fname", "input_language", "html_minification">>
      [] step = "gen_html_snippets_with_coqdoc" ->
            <<"annotated", "html_classes", "fname", "input_language", "html_minification">>
      [] step = "copy_assets" -> <<"state", "assets", "copy_fn", "output_directory">>
      [] step = "dump_html_standalone" ->
            <<"snippets", "fname", "webpage_style", "html_minification", "include_banner",
              "include_vernums", "assets", "html_classes", "input_language">>
      [] step = "encode_json" -> <<"obj">>
      [] step = "dump_json" -> <<"js">>
      [] step \in {"dump_html_snippets", "dump_latex_snippets"} -> <<"snippets">>
      [] step = "write_file" -> <<"contents", "fname", "output", "output_directory">>

\* call_pipeline_step: params, and the names among them that ctx lacks;
\* ctx[p] raises KeyError for such a name, before step is called.
StepParams(step) == Tail(Signature(step))
MissingParams(step, keys) == {StepParams(step)[i] : i \in 1..Len(StepParams(step))} \ keys

\* build_context: the fields of ctx set for the document; its other fields
\* are those of args, the two lists included.
BuildContext(p) ==
    [fpath |-> p.fpath, frontend |-> p.frontend, backend |-> p.backend,
     input_language |-> INPUT_LANGUAGE_BY_FRONTEND[p.frontend]]

\* The head of the loop over args.pipelines: the next document starts with
\* state None and a new context, or the run ends.
NextDocument ==
    /\ \/ run.pc = "resolved"
       \/ run.pc = "running" /\ run.step > Len(args.pipelines[run.doc].steps)
    /\ run' = IF run.doc < Len(args.pipelines)
              THEN [run EXCEPT !.pc = "running", !.doc = run.doc + 1, !.step = 1,
                               !.state = StateNone,
                               !.ctx = <<BuildContext(args.pipelines[run.doc + 1])>>]
              ELSE [run EXCEPT !.pc = "done"]
    /\ UNCHANGED <<args, cachedir, procs, serVars, cacheVars>>

\* The test a step makes on what it dispatches on, before any work: TRUE
\* when code_to_rst or rst_to_code takes its `assert False` branch, or
\* prover_config[input_language] of annotate_chunks raises KeyError.
DispatchAsserts(step, input_language, backend) ==
    CASE step = "code_to_rst" -> input_language # "coq"
      [] step = "rst_to_code" -> backend \notin {"coq", "coq+rst"}
      [] step = "annotate_chunks" -> input_language \notin DOMAIN PROVER_CONFIG
      [] OTHER -> FALSE

\* The record of a step call: the step, what it received as state and read
\* in the two lists, what it returned, and the number of calls of
\* prover.annotate it made.
StepCall(r, a, raised, annotate_calls) ==
    LET p == a.pipelines[r.doc]
        step == p.steps[r.step]
    IN [doc |-> r.doc, idx |-> r.step, step |-> step, recv |-> r.state,
        assets |-> a.assets, html_classes |-> a.html_classes, raised |-> raised,
        params |-> StepParams(step), missing |-> MissingParams(step, ContextKeys),
        fpath |-> p.fpath, prover_calls |-> annotate_calls,
        asserted |-> DispatchAsserts(step, r.ctx[1].input_language, r.ctx[1].backend),
        ret |-> IF raised THEN StateNone ELSE StepReturn(step, r.state, r.ctx[1].fpath)]

AfterStepStateDropped(r, a, raised, annotate_calls) ==
    IF raised
    THEN [r EXCEPT !.pc = "failed",
                   !.calls = Append(r.calls, StepCall(r, a, TRUE, annotate_calls))]
    ELSE [r EXCEPT !.step = r.step + 1, !.state = StateNone,
                   !.calls = Append(r.calls, StepCall(r, a, FALSE, annotate_calls))]

\* state = call_pipeline_step(step, state, ctx), in the loop over the steps
\* of the document; an exception raised by the step ends the run.
AfterStep(r, a, raised, annotate_calls) ==
    IF raised
    THEN [r EXCEPT !.pc = "failed",
                   !.calls = Append(r.calls, StepCall(r, a, TRUE, annotate_calls))]
    ELSE [r EXCEPT !.step = r.step + 1, !.state = StepCall(r, a, FALSE, annotate_calls).ret,
                   !.calls = Append(r.calls, StepCall(r, a, FALSE, annotate_calls))]

\* What the step does besides returning: for annotate_chunks, the files of
\* the document's cache afterwards and the calls of prover.annotate.
StepEffects(p, a, files) ==
    IF DispatchAsserts(p.steps[run.step], INPUT_LANGUAGE_BY_FRONTEND[p.frontend], p.backend)
    THEN {[disk |-> files[p.fpath], calls |-> 0, raised |-> TRUE]}
    ELSE IF p.steps[run.step] # "annotate_chunks"
    THEN {[disk |-> files[p.fpath], calls |-> 0, raised |-> b] : b \in BOOLEAN}
    ELSE {AnnotateChunks(files[p.fpath], ChunksOf(p.fpath),
                         INPUT_LANGUAGE_BY_FRONTEND[p.frontend],
                         PROVER_CONFIG[INPUT_LANGUAGE_BY_FRONTEND[p.frontend]],
                         a.cache_directory, a.cache_compression, o) : o \in ProverOutcomes}

CallPipelineStep ==
    /\ run.pc = "running" /\ run.step <= Len(args.pipelines[run.doc].steps)
    /\ \E eff \in StepEffects(args.pipelines[run.doc], args, cachedir) :
        \E raised \in {eff.raised} :
          /\ MissingParams(args.pipelines[run.doc].steps[run.step], ContextKeys) # {} => raised
          /\ run' = AfterStep(run, args, raised, eff.calls)
          /\ cachedir' = [cachedir EXCEPT ![args.pipelines[run.doc].fpath] = eff.disk]
          /\ args' = IF raised THEN args
                     ELSE LET p == args.pipelines[run.doc]
                          IN [args EXCEPT
                                !.assets = StepAssets(p.steps[run.step], args.assets, p.backend),
                                !.html_classes = StepClasses(p.steps[run.step], args.html_classes,
                                                             args.html_minification)]
    /\ UNCHANGED <<procs, serVars, cacheVars>>

-----------------------------------------------------------------------------
(* SpecCli: one run of the command line, for every choice of arguments *)

MaxDocs == 2

\* Input paths: one for each entry of the frontend table, one that no entry
\* matches; the runs of several documents take theirs among three.
DocPaths ==
    { <<"a", ".v">>, <<"b", ".lean">>, <<"c", ".lean3">>, <<"d", ".v", ".json">>,
      <<"e", ".lean3", ".json">>, <<"f", ".rst">>, <<"g", ".md">>, <<"h", ".txt">> }
SeveralDocPaths == { <<"a", ".v">>, <<"d", ".v", ".json">>, <<"f", ".rst">> }
RECURSIVE Lists(_, _)
Lists(S, n) ==
    IF n = 0 THEN {<<>>} ELSE {Append(l, x) : l \in Lists(S, n - 1), x \in S}
InputLists ==
    Lists(DocPaths, 1) \cup UNION {Lists(SeveralDocPaths, n) : n \in 2..MaxDocs}

\* --frontend, --backend and --output as given ("" and <<>>: not given).
FrontendChoices == {""} \cup Frontends
BackendChoices ==
    {"", "webpage", "latex", "json", "snippets-html", "snippets-latex", "lint", "rst", "coq",
     "coq+rst", "null"}
OutputChoices ==
    {<<>>, <<"o", ".html">>, <<"o", ".lint", ".json">>, <<"o", ".snippets", ".html">>,
     <<"o", ".v", ".tex">>}

InitCli ==
    /\ InitSerIdle /\ InitCache /\ disk = [c \in Compressions |-> <<>>]
    /\ \E input \in InputLists, fe \in FrontendChoices, be \in BackendChoices,
          out \in OutputChoices, min \in BOOLEAN :
          args = [NoArgs EXCEPT !.input = input, !.frontend = fe, !.backend = be,
                                !.output = out, !.html_minification = min]
    /\ run = [NoRun EXCEPT !.pc = "parsed", !.runs = 1]
    /\ cachedir = [p \in {args.input[i] : i \in 1..Len(args.input)} |-> NoFiles]
    /\ procs = <<>>

NextCli == PostProcessArguments \/ NextDocument \/ CallPipelineStep

SpecCli == InitCli /\ [][NextCli]_vars

-----------------------------------------------------------------------------
(* SpecRun: the same command line run again and again on one cache directory *)

MaxRuns == 2

\* Two documents, with and without --frontend coq, --backend json and a
\* cache directory; --cache-compression is not given, or is gzip.
RunDocPaths == { <<"a", ".v">>, <<"b", ".lean">> }

InitRun ==
    /\ InitSerIdle /\ InitCache /\ disk = NoFiles
    /\ \E input \in UNION {Lists(RunDocPaths, n) : n \in 1..MaxDocs}, fe \in {"", "coq"},
          be \in {"", "json"}, root \in CacheRoots, compression \in {"None", "gzip"} :
          args = [NoArgs EXCEPT !.input = input, !.frontend = fe, !.backend = be,
                                !.cache_directory = root, !.cache_compression = compression]
    /\ run = [NoRun EXCEPT !.pc = "parsed", !.runs = 1]
    /\ cachedir = [p \in RunDocPaths |-> NoFiles]
    /\ procs = <<>>

\* The documents whose annotate_chunks step returned in the run.
AnnotatedIn(calls) ==
    {calls[k].fpath : k \in {j \in 1..Len(calls) :
                                calls[j].step = "annotate_chunks" /\ ~calls[j].raised}}

\* The process has exited, at the end of main or on the exception of a step;
\* the same command line is run again.  The new process knows nothing of
\* the one before: the model keeps, for the properties, the documents
\* annotated in the earlier runs and the step call that failed, if any.
RunAgain ==
    /\ run.pc \in {"done", "failed"} /\ run.runs < MaxRuns
    /\ run' = [NoRun EXCEPT !.pc = "parsed", !.runs = run.runs + 1,
                            !.annotated = run.annotated \cup AnnotatedIn(run.calls),
                            !.failed = IF run.pc = "done" THEN <<>>
                                       ELSE LET c == run.calls[Len(run.calls)]
                                            IN <<[fpath |-> c.fpath, step |-> c.step]>>]
    /\ args' = [args EXCEPT !.assets = <<>>, !.html_classes = <<>>, !.pipelines = <<>>]
    /\ UNCHANGED <<cachedir, procs, serVars, cacheVars>>

NextRun == PostProcessArguments \/ NextDocument \/ CallPipelineStep \/ RunAgain

SpecRun == InitRun /\ [][NextRun]_vars

-----------------------------------------------------------------------------
(* Properties of the command line, checked under SpecCli *)

\* The last n parts of a path.
LastParts(fpath, n) == SubSeq(fpath, Len(fpath) - n + 1, Len(fpath))
HasSuffix(fpath, ext) == Len(ext) < Len(fpath) /\ LastParts(fpath, Len(ext)) = ext

\* The mode of the longest extension of the table that the path ends with.
LongestMatch(fpath, table) ==
    LET hits == {i \in 1..Len(table) : HasSuffix(fpath, table[i].ext)}
    IN table[CHOOSE i \in hits : \A j \in hits : Len(table[j].ext) <= Len(table[i].ext)].mode

NothingGiven == args.frontend = "" /\ args.backend = "" /\ args.output = <<>>

\* C15: with no frontend, backend or output path given, a document whose
\* path ends in .v resolves to (coq+rst, webpage) and one whose path ends in
\* .v.json to (coq.json, json); the frontend of every resolved document is
\* that of the longest suffix of the frontend table its path ends with, and
\* a run whose paths all end in .v or .v.json resolves.
C15_FrontendInference ==
    (NothingGiven /\ run.pc # "parsed") =>
        /\ \A i \in 1..Len(args.pipelines) :
              LET p == args.pipelines[i]
              IN /\ p.fpath = args.input[i]
                 /\ HasSuffix(p.fpath, <<".v">>) =>
                        p.frontend = "coq+rst" /\ p.backend = "webpage"
                 /\ HasSuffix(p.fpath, <<".v", ".json">>) =>
                        p.frontend = "coq.json" /\ p.backend = "json"
                 /\ p.frontend = LongestMatch(p.fpath, FRONTENDS_BY_EXTENSION)
        /\ (\A i \in 1..Len(args.input) :
               HasSuffix(args.input[i], <<".v">>) \/ HasSuffix(args.input[i], <<".v", ".json">>))
              => run.pc # "error" /\ Len(args.pipelines) = Len(args.input)

\* a.v and d.v.json were resolved in one run, nothing else being given.
C15_Witness ==
    /\ NothingGiven /\ run.pc = "resolved"
    /\ args.input = << <<"a", ".v">>, <<"d", ".v", ".json">> >>
    /\ args.pipelines[2].frontend = "coq.json"

\* The frontend and backend requested or inferred for a document.
WantedFrontend(fpath) ==
    IF args.frontend # "" THEN Ok(args.frontend) ELSE InferFrontend(fpath)
WantedBackend(fpath) ==
    IF args.backend # "" THEN Ok(args.backend)
    ELSE InferBackend(WantedFrontend(fpath).val, args.output)
Resolves(fpath) ==
    /\ WantedFrontend(fpath).ok /\ WantedBackend(fpath).ok
    /\ SupportsBackend(PIPELINES[WantedFrontend(fpath).val], WantedBackend(fpath).val)
Unsupported(fpath) ==
    /\ WantedFrontend(fpath).ok /\ WantedBackend(fpath).ok
    /\ ~SupportsBackend(PIPELINES[WantedFrontend(fpath).val], WantedBackend(fpath).val)
FirstUnresolved ==
    CHOOSE i \in 1..Len(args.input) :
        ~Resolves(args.input[i]) /\ \A j \in 1..(i - 1) : Resolves(args.input[j])

\* C16: when the backend requested or inferred for some input document is
\* not supported by its frontend, the run ends in an error and no step of
\* any document is ever called; when that document is the first that does
\* not resolve, the error is an ArgumentTypeError naming the frontend, the
\* backend and the backends the frontend supports.
C16_UnsupportedBackendFailsBeforeAnyStep ==
    (run.pc # "parsed" /\ \E i \in 1..Len(args.input) : Unsupported(args.input[i])) =>
        /\ run.pc = "error" /\ run.calls = <<>>
        /\ (Unsupported(args.input[FirstUnresolved])
              /\ ~(Len(args.input) > 1 /\ args.output # <<>>)) =>
              LET fe == WantedFrontend(args.input[FirstUnresolved]).val
                  be == WantedBackend(args.input[FirstUnresolved]).val
              IN run.err = <<ArgumentTypeError("--backend", fe, be, BackendsOf(PIPELINES[fe]))>>

\* With --backend json, d.v.json resolves and a.v, the second document,
\* does not: the run stopped before any step of d.v.json.
C16_Witness ==
    /\ run.pc = "error" /\ run.calls = <<>>
    /\ args.input = << <<"d", ".v", ".json">>, <<"a", ".v">> >>
    /\ Resolves(args.input[1]) /\ Unsupported(args.input[2])
    /\ run.err[1].frontend = "coq+rst" /\ run.err[1].backend = "json"

\* C17: the step calls are made document by document in the order of the
\* input, and for each document step by step in the order of its list; the
\* first step of a document receives None and each other step the value the
\* step before it returned; a document starts only after the last step of
\* the document before it returned, and a run that ends has called them all.
C17_ExecutorOrder ==
    /\ \A k \in 1..Len(run.calls) :
          LET c == run.calls[k]
              p == args.pipelines[c.doc]
          IN /\ p.fpath = args.input[c.doc]
             /\ c.step = p.steps[c.idx]
             /\ c.recv = IF c.idx = 1 THEN StateNone ELSE run.calls[k - 1].ret
             /\ IF k = 1 THEN c.doc = 1 /\ c.idx = 1
                ELSE LET b == run.calls[k - 1]
                     IN /\ ~b.raised
                        /\ IF c.idx = 1
                           THEN c.doc = b.doc + 1 /\ b.idx = Len(args.pipelines[b.doc].steps)
                           ELSE c.doc = b.doc /\ c.idx = b.idx + 1
    /\ run.pc = "done" =>
          /\ Len(args.pipelines) = Len(args.input)
          /\ LET c == run.calls[Len(run.calls)]
             IN c.doc = Len(args.pipelines) /\ c.idx = Len(args.pipelines[c.doc].steps)
                /\ ~c.raised

\* A run of two documents ended, each step of the second having received
\* what the step before it returned.
C17_Witness ==
    /\ run.pc = "done" /\ Len(args.pipelines) = 2
    /\ \E k \in 2..Len(run.calls) :
          /\ run.calls[k].doc = 2 /\ run.calls[k].idx = 3
          /\ run.calls[k].recv = run.calls[k - 1].ret /\ ~run.calls[k].recv.none

\* What the steps of a pipeline read in args.assets and args.html_classes
\* when the document is processed alone: the lists as the steps before
\* them in the pipeline left them, from empty lists.
RECURSIVE AloneAssets(_, _)
AloneAssets(p, idx) ==
    IF idx = 1 THEN <<>>
    ELSE StepAssets(p.steps[idx - 1], AloneAssets(p, idx - 1), p.backend)
RECURSIVE AloneClasses(_, _)
AloneClasses(p, idx) ==
    IF idx = 1 THEN <<>>
    ELSE StepClasses(p.steps[idx - 1], AloneClasses(p, idx - 1), args.html_minification)

\* C19: what the steps of a document read in the context, the asset list
\* and the HTML class list included, is what they read when the document is
\* processed alone, whatever documents were processed before it; and the
\* context is not modified while the steps of a document run.
C19_NoSharedStateAcrossDocuments ==
    \A k \in 1..Len(run.calls) :
        LET c == run.calls[k]
            p == args.pipelines[c.doc]
        IN /\ c.assets = AloneAssets(p, c.idx)
           /\ c.html_classes = AloneClasses(p, c.idx)
           /\ c.idx > 1 =>
                 /\ c.assets = run.calls[k - 1].assets
                 /\ c.html_classes = run.calls[k - 1].html_classes

\* What holds of the code: the lists a step reads are those the steps of
\* all the documents processed so far left, in one sequence.
C19_ListsAccumulateOverRun ==
    \A k \in 1..Len(run.calls) :
        LET c == run.calls[k]
        IN IF k = 1 THEN c.assets = <<>> /\ c.html_classes = <<>>
           ELSE LET b == run.calls[k - 1]
                IN /\ c.assets = StepAssets(b.step, b.assets, args.pipelines[b.doc].backend)
                   /\ c.html_classes = StepClasses(b.step, b.html_classes,
                                                   args.html_minification)

\* An output path was given and no backend.
OutputGiven == args.backend = "" /\ args.output # <<>>

\* C21: when no backend is given and an output path is, the backend of
\* every resolved document is that of the longest suffix of the backend
\* table that the output path ends with.
C21_LongestOutputSuffixWins ==
    (OutputGiven /\ run.pc \notin {"parsed", "error"}) =>
        \A i \in 1..Len(args.pipelines) :
            args.pipelines[i].backend = LongestMatch(args.output, BACKENDS_BY_EXTENSION)

\* What holds of the code: the backend is that of the first entry of the
\* table that the output path ends with, and it is that of the longest one
\* unless the path ends with .lint.json.
C21_FirstOutputSuffixWins ==
    (OutputGiven /\ run.pc \notin {"parsed", "error"}) =>
        \A i \in 1..Len(args.pipelines) :
            LET b == args.pipelines[i].backend
            IN /\ b = InferMode(args.output, "--backend", BACKENDS_BY_EXTENSION).val
               /\ ~HasSuffix(args.output, <<".lint", ".json">>) =>
                     b = LongestMatch(args.output, BACKENDS_BY_EXTENSION)

\* C30: every frontend of the suffix table and of the default-backend table
\* is registered in PIPELINES and the default backend of each is one of its
\* backends; so a run given no backend and no output path, whose documents
\* all have a frontend (given, or inferred from their path), resolves every
\* document to its frontend's default backend.
C30_DefaultsResolve ==
    /\ \A i \in 1..Len(FRONTENDS_BY_EXTENSION) :
          FRONTENDS_BY_EXTENSION[i].mode \in DOMAIN PIPELINES
    /\ \A f \in DOMAIN DEFAULT_BACKENDS :
          f \in DOMAIN PIPELINES /\ SupportsBackend(PIPELINES[f], DEFAULT_BACKENDS[f])
    /\ (/\ run.pc # "parsed" /\ args.backend = "" /\ args.output = <<>>
        /\ \A i \in 1..Len(args.input) : WantedFrontend(args.input[i]).ok) =>
          /\ run.pc # "error" /\ Len(args.pipelines) = Len(args.input)
          /\ \A i \in 1..Len(args.pipelines) :
                LET p == args.pipelines[i]
                IN /\ p.frontend = WantedFrontend(args.input[i]).val
                   /\ p.backend = DEFAULT_BACKENDS[p.frontend]
                   /\ p.steps = StepsOf(PIPELINES[p.frontend], p.backend)

\* Two documents were resolved with --frontend coqdoc, a frontend that only
\* the default-backend table names, and nothing else given.
C30_Witness ==
    /\ run.pc = "resolved" /\ args.frontend = "coqdoc" /\ args.backend = ""
    /\ args.output = <<>> /\ Len(args.pipelines) = 2
    /\ args.pipelines[2].backend = "webpage"

\* The names of a list, as a set.
Names(params) == {params[i] : i \in 1..Len(params)}

\* Every step of every registered pipeline has a first parameter, and the
\* context has a key for each of the others.
RegisteredStepsFindTheirInputs ==
    \A f \in DOMAIN PIPELINES : \A i \in 1..Len(PIPELINES[f]) :
        \A j \in 1..Len(PIPELINES[f][i].steps) :
            LET sig == Signature(PIPELINES[f][i].steps[j])
            IN Len(sig) >= 1 /\ MissingParams(PIPELINES[f][i].steps[j], ContextKeys) = {}

\* C29: for every registered pipeline and each of its steps, every
\* parameter of the step after the first is a key of the context; and each
\* step that is called is passed the context fields named by its parameters
\* after the first, all of them and no other, none being missing.
C29_StepsGetTheirParameters ==
    /\ RegisteredStepsFindTheirInputs
    /\ \A k \in 1..Len(run.calls) :
          LET c == run.calls[k]
              sig == Signature(c.step)
          IN /\ c.missing = {}
             /\ Names(c.params) \subseteq ContextKeys
             /\ Len(c.params) = Len(sig) - 1
             /\ \A n \in 1..Len(c.params) : c.params[n] = sig[n + 1]

\* The steps of a webpage of reStructuredText were all called: gen_docutils
\* with nine context fields, copy_assets with three, write_file with three.
C29_Witness ==
    /\ run.pc = "done" /\ Len(run.calls) = 5
    /\ run.calls[3].step = "gen_docutils" /\ Len(run.calls[3].params) = 9
    /\ run.calls[4].step = "copy_assets" /\ Len(run.calls[4].params) = 3
    /\ run.calls[5].step = "write_file" /\ ~run.calls[5].raised

-----------------------------------------------------------------------------
(* Properties of the runs on a cache directory, checked under SpecRun *)

\* The calls of prover.annotate made for the document at path fpath, and
\* for the document at position i of the input, in the run so far.
AnnotateCallsFor(fpath) ==
    {k \in 1..Len(run.calls) : run.calls[k].fpath = fpath /\ run.calls[k].prover_calls > 0}
AnnotateCallsAt(i) ==
    {k \in 1..Len(run.calls) : run.calls[k].doc = i /\ run.calls[k].prover_calls > 0}

\* The language of the document at fpath under the arguments of the run.
LanguageOf(fpath) == INPUT_LANGUAGE_BY_FRONTEND[WantedFrontend(fpath).val]

\* The cache file of the document holds an entry that update hits.
Cached(fpath) ==
    LET js == ReadJs(cachedir[fpath])
        lang == LanguageOf(fpath)
    IN /\ FileValidate(js) /\ lang \in DOMAIN js[1].caches
       /\ CacheGet(js[1].caches[lang], ChunksOf(fpath), PROVER_CONFIG[lang]) # None

CallsAtMostOnce ==
    /\ \A f \in DOMAIN PIPELINES : \A i \in 1..Len(PIPELINES[f]) :
          Cardinality({j \in 1..Len(PIPELINES[f][i].steps) :
                          PIPELINES[f][i].steps[j] = "annotate_chunks"}) <= 1
    /\ \A k \in 1..Len(run.calls) :
          /\ run.calls[k].prover_calls \in {0, 1}
          /\ run.calls[k].prover_calls = 1 => run.calls[k].step = "annotate_chunks"
    /\ \A i \in 1..Len(args.pipelines) : Cardinality(AnnotateCallsAt(i)) <= 1
    /\ args.cache_directory # "None" =>
          \A fpath \in DOMAIN cachedir : Cardinality(AnnotateCallsFor(fpath)) <= 1

AnnotateCallsOnMiss ==
    (/\ run.pc = "running" /\ run.step <= Len(args.pipelines[run.doc].steps)
     /\ args.pipelines[run.doc].steps[run.step] = "annotate_chunks"
     /\ Len(run'.calls) = Len(run.calls) + 1) =>
        run'.calls[Len(run'.calls)].prover_calls =
            IF args.cache_directory # "None" /\ Cached(run.ctx[1].fpath) THEN 0 ELSE 1

AnnotateStepsFor(fpath) ==
    {k \in 1..Len(run.calls) :
        run.calls[k].fpath = fpath /\ run.calls[k].step = "annotate_chunks"}

\* C24: with a cache directory, once the annotate_chunks step of a document
\* has returned, the cache file of the document holds its annotation, from
\* before the next step starts and whatever the later steps do; and in a
\* later run of the same command line, whether the earlier run ended or
\* failed at a later step, annotate_chunks returns for that document
\* without calling the prover.
C24_AnnotationPersistedBeforeNextStep ==
    args.cache_directory # "None" =>
        /\ \A k \in 1..Len(run.calls) :
              (run.calls[k].step = "annotate_chunks" /\ ~run.calls[k].raised) =>
                  Cached(run.calls[k].fpath)
        /\ \A fpath \in run.annotated :
              /\ Cached(fpath)
              /\ \A k \in AnnotateStepsFor(fpath) :
                    run.calls[k].prover_calls = 0 /\ ~run.calls[k].raised

\* The first run annotated a.v and failed at encode_json, the step after;
\* in the second run annotate_chunks returned without a call of the prover.
C24_Witness ==
    /\ run.runs = 2 /\ args.cache_directory # "None"
    /\ run.failed = <<[fpath |-> <<"a", ".v">>, step |-> "encode_json"]>>
    /\ <<"a", ".v">> \in run.annotated
    /\ \E k \in AnnotateStepsFor(<<"a", ".v">>) :
          run.calls[k].prover_calls = 0 /\ ~run.calls[k].raised

-----------------------------------------------------------------------------
(* The dispatch of the steps *)

\* No step of a registered pipeline fails its dispatch under the frontend
\* and the backend the pipeline is registered for.
RegisteredPipelinesDispatch ==
    \A f \in DOMAIN PIPELINES : \A i \in 1..Len(PIPELINES[f]) :
        \A j \in 1..Len(PIPELINES[f][i].steps) :
            ~DispatchAsserts(PIPELINES[f][i].steps[j], INPUT_LANGUAGE_BY_FRONTEND[f],
                             PIPELINES[f][i].backend)

\* C31: every registered pipeline meets the dispatch preconditions of its
\* steps: annotate_chunks only under a frontend whose input language is coq
\* or lean3, code_to_rst only where the input language is coq, rst_to_code
\* only where the backend is coq or coq+rst; so no step called in a run of
\* a resolved pipeline takes its assert False branch.
C31_DispatchPreconditionsMet ==
    /\ RegisteredPipelinesDispatch
    /\ \A i \in 1..Len(args.pipelines) : \A j \in 1..Len(args.pipelines[i].steps) :
          LET p == args.pipelines[i]
              lang == INPUT_LANGUAGE_BY_FRONTEND[p.frontend]
          IN /\ p.steps[j] = "annotate_chunks" => lang \in {"coq", "lean3"}
             /\ p.steps[j] = "code_to_rst" => lang = "coq"
             /\ p.steps[j] = "rst_to_code" => p.backend \in {"coq", "coq+rst"}
    /\ \A k \in 1..Len(run.calls) : ~run.calls[k].asserted

\* A run called rst_to_code for a document read as rst and written as
\* coq+rst, and the step returned.
C31_Witness ==
    \E k \in 1..Len(run.calls) :
        /\ run.calls[k].step = "rst_to_code" /\ ~run.calls[k].raised
        /\ args.pipelines[run.calls[k].doc].frontend = "rst"
        /\ args.pipelines[run.calls[k].doc].backend = "coq+rst"

-----------------------------------------------------------------------------
(* SpecReserved: serializer runs on values that hold mappings with the keys *)
(* the wire formats use themselves                                          *)

\* The keys each encoder asserts the absence of.
ReservedKeys(name) == IF name = "plain" THEN {"_type"} ELSE {"*", "&"}

\* Mappings with one of these keys: alone, beside a user key, and in the
\* form of an entity node or a back-reference of a wire format.
Culprits ==
    {Dict(<<Pair(key, x)>>) : key \in {"_type", "*", "&"}, x \in {PyInt(0), PyStr("a", 1)}}
        \cup {Dict(<<Pair("k", PyInt(0)), Pair(key, PyInt(0))>>) : key \in {"_type", "*", "&"}}
        \cup { Dict(<<Pair("_type", PyStr("text", 0)), Pair("contents", PyStr("a", 1))>>),
               Dict(<<Pair("&", PyStr("text", 0)), Pair("_", List(<<PyStr("a", 1)>>))>>) }

\* The values that hold the mapping x: at the top, and under lists,
\* mappings and entities, also after a value that is repeated.
Around(x) ==
    { x, List(<<x>>), List(<<PyInt(0), x>>), Dict(<<Pair("k", x)>>),
      Dict(<<Pair("j", List(<<x>>))>>), Ent("Message", <<x>>, 0),
      List(<<Ent("Text", <<x>>, 0)>>),
      Ent("Message", <<Ent("Text", <<List(<<x>>)>>, 0)>>, 0),
      List(<<Ent("Text", <<PyStr("a", 1)>>, 0), Ent("Text", <<PyStr("a", 1)>>, 0), x>>) }

ReservedInputs == UNION {Around(x) : x \in Culprits}

InitReserved ==
    /\ sv \in ReservedInputs
    /\ ser = "none" /\ wire = <<>> /\ dec = <<>> /\ copy = FALSE
    /\ InitCliIdle /\ InitCache /\ disk = [c \in Compressions |-> <<>>]

SpecReserved == InitReserved /\ [][NextSer]_vars

\* Some mapping of v, at any depth, has a key of keys.
RECURSIVE HoldsKey(_, _)
HoldsKey(v, keys) ==
    \/ v.k = "dict" /\ Keys(v) \cap keys # {}
    \/ v.k = "dict" /\ \E i \in 1..Len(v.c) : HoldsKey(v.c[i].c[1], keys)
    \/ v.k \in {"list", "ent", "tuple"} /\ \E i \in 1..Len(v.c) : HoldsKey(v.c[i], keys)

\* The wire tree w of the value v, walked along v: each mapping of v is in
\* w a mapping with the same keys, none of them reserved (or, in the fully
\* deduplicating format, the back-reference emitted for a repeated value),
\* and each entity of v an entity node or a back-reference.
RECURSIVE MappingsKept(_, _, _)
MappingsKept(v, w, name) ==
    IF name = "full" /\ w.k = "dict" /\ Keys(w) = {"*"} /\ Keys(v) \cap {"*"} = {}
    THEN TRUE
    ELSE CASE v.k = "dict" ->
                /\ w.k = "dict" /\ Keys(w) = Keys(v) /\ Keys(w) \cap ReservedKeys(name) = {}
                /\ \A key \in Keys(v) : MappingsKept(Lookup(v, key), Lookup(w, key), name)
           [] v.k = "list" ->
                /\ w.k = "list" /\ Len(w.c) = Len(v.c)
                /\ \A i \in 1..Len(v.c) : MappingsKept(v.c[i], w.c[i], name)
           [] v.k = "ent" ->
                /\ w.k = "dict"
                /\ IF name = "plain"
                   THEN /\ HasKey(w, "_type")
                        /\ \A i \in 1..Len(v.c) :
                              MappingsKept(v.c[i], Lookup(w, FIELDS[v.s][i]), name)
                   ELSE \/ Keys(w) = {"*"}
                        \/ /\ HasKey(w, "&")
                           /\ \A i \in 1..Len(v.c) :
                                 MappingsKept(v.c[i], Lookup(w, "_").c[i], name)
           [] OTHER -> w = v

\* C33: each encoder fails with AssertionError, and produces no wire tree,
\* for a value that holds at any depth a mapping with a key its format
\* reserves ("_type" for plain, "*" or "&" for the two deduplicating
\* formats); in a wire tree it does produce every mapping of the value is a
\* mapping without a reserved key, and decode gives back the value: no
\* mapping of the value is read as an entity node or a back-reference.
C33_ReservedKeysRejected ==
    (ser # "none" /\ wire # <<>>) =>
        /\ HoldsKey(sv, ReservedKeys(ser)) => wire[1] = Err("AssertionError") /\ dec = <<>>
        /\ ~IsErr(wire[1]) => IsWire(wire[1]) /\ MappingsKept(sv, wire[1], ser)
        /\ dec # <<>> => StructEq(dec[1], sv)

\* The deduplicating encoder refused a value whose reserved key is in a
\* mapping inside a list inside an entity inside an entity.
C33_Witness ==
    /\ ser = "dedup" /\ wire = <<Err("AssertionError")>> /\ dec = <<>>
    /\ sv = Ent("Message", <<Ent("Text", <<List(<<Dict(<<Pair("*", PyInt(0))>>)>>)>>, 0)>>, 0)

\* The plain encoder and decoder carried a mapping that has the keys of a
\* reference node of the other formats, and it was read as a mapping.
ForeignKeysCarried ==
    /\ ser = "plain" /\ dec # <<>> /\ sv.k = "list" /\ Len(sv.c) = 1
    /\ sv.c[1] = Dict(<<Pair("&", PyStr("text", 0)), Pair("_", List(<<PyStr("a", 1)>>))>>)
    /\ dec[1].c[1].k = "dict"

====
